---------------------------- MODULE Spec2Model ----------------------------
(***************************************************************************)
(* Model of the report assembly pipeline of MireaReportGenerator:          *)
(*   - utils/file_utils.py      FileManager.find_code_files, read_file     *)
(*   - core/document_generator.py  DocumentGenerator.generate and helpers  *)
(*   - utils/logger.py          Logger.configure and the logging methods   *)
(*   - core/config.py           ConfigManager                              *)
(*   - ui/app.py                MireaReportGenerator.generate_document     *)
(* The specifications of the module share its variables:                   *)
(*   Spec      one run of DocumentGenerator.generate                       *)
(*   SpecTwice two runs of generate on the same inputs and output path     *)
(*   SpecWalk  one call of FileManager.find_code_files on a directory tree *)
(*   SpecRead  the two safe readers applied to one path                    *)
(*   SpecLog   Logger.configure and the logging methods                    *)
(*   SpecCfg   ConfigManager constructed on a config.json, then save and   *)
(*             update                                                      *)
(*   SpecApp   the handler generate_document after a directory was chosen  *)
(*   SpecStartup  the same handler after a start on a stored config        *)
(*   SpecName  the file name and output path the handler computes          *)
(*   SpecRace  two calls of generate that overlap on one output path       *)
(*   SpecThreads  two threads that use the logger at the same time         *)
(*   SpecUi    the handlers of the form's fields and directory controls    *)
(* Strings of the program are sequences of tokens (TLA+ strings): a        *)
(* decoded character is a one-character token, a literal of the source is  *)
(* one token.  The Russian literals are transliterated, the module being   *)
(* restricted to ASCII.                                                    *)
(***************************************************************************)
EXTENDS Integers, Sequences, FiniteSets, TLC

(***************************************************************************)
(* Bounds of the model.                                                    *)
(***************************************************************************)
MaxFiles == 3
MaxLen == 3
MaxTreeFiles == 3
MaxConfigures == 3
MaxItems == 2

SeqsUpTo(S, n) == UNION {[1..k -> S] : k \in 0..n}

Last(s) == s[Len(s)]

RECURSIVE Flatten(_)
Flatten(ss) == IF ss = <<>> THEN <<>> ELSE Head(ss) \o Flatten(Tail(ss))

Range(s) == {s[i] : i \in 1..Len(s)}

(***************************************************************************)
(* Names and paths.  A name is a sequence of characters, a path a sequence *)
(* of names (os.path.join appends a name, os.path.basename takes the last).*)
(***************************************************************************)
NameD == <<"D">>
NameS == <<"s">>
NameU == <<"u">>
NameT == <<"t">>
NameAPy == <<"a", ".", "p", "y">>
NameUpperPy == <<"A", ".", "P", "Y">>
NameBCpp == <<"b", ".", "c", "p", "p">>
NameNotes == <<"n", ".", "t", "x", "t">>
NamePyTxt == <<"a", ".", "p", "y", ".", "t", "x", "t">>

PathJoin(root, file) == Append(root, file)

Basename(path) == IF path = <<>> THEN <<>> ELSE Last(path)

RECURSIVE PathStr(_)
PathStr(path) ==
    IF path = <<>> THEN <<>>
    ELSE IF Len(path) = 1 THEN Head(path)
    ELSE Head(path) \o <<"/">> \o PathStr(Tail(path))

(***************************************************************************)
(* The file system seen by open(): every path is missing, a directory, a   *)
(* file that cannot be opened, or a readable file holding bytes.           *)
(***************************************************************************)
Bytes == {65, 10, 13, 195, 169, 255}

FileState(kind, bytes) == [kind |-> kind, bytes |-> bytes]

MissingFile == FileState("missing", <<>>)

OpenError(st) ==
    CASE st.kind = "missing" -> "[Errno 2] No such file or directory: '"
      [] st.kind = "dir"     -> "[Errno 21] Is a directory: '"
      [] st.kind = "denied"  -> "[Errno 13] Permission denied: '"
      [] OTHER               -> "none"

\* str(e) of the OSError open() raises for the path
StrError(st, path) == <<OpenError(st)>> \o PathStr(path) \o <<"'">>

(***************************************************************************)
(* open(path, "r", encoding="utf-8", errors="ignore").read(): UTF-8        *)
(* decoding that drops every byte that starts no valid sequence, then the  *)
(* universal-newline translation of text mode (newline=None).  The bytes   *)
(* of the model (Bytes) form one- and two-byte sequences only: 65 "A",     *)
(* 10 "\n", 13 "\r", 195 169 (U+00E9), and 255, which starts no sequence.  *)
(***************************************************************************)
IsAscii(b) == b < 128
IsLead2(b) == b \in 194..223
IsCont(b) == b \in 128..191

CodePointChar(cp) ==
    CASE cp = 65  -> "A"
      [] cp = 10  -> "\n"
      [] cp = 13  -> "\r"
      [] cp = 233 -> "U+00E9"
      [] OTHER    -> "U+????"

RECURSIVE DecodeIgnore(_)
DecodeIgnore(bytes) ==
    IF bytes = <<>> THEN <<>>
    ELSE LET b == Head(bytes) IN
         IF IsAscii(b) THEN <<CodePointChar(b)>> \o DecodeIgnore(Tail(bytes))
         ELSE IF IsLead2(b) /\ Len(bytes) >= 2 /\ IsCont(bytes[2])
              THEN <<CodePointChar((b - 192) * 64 + (bytes[2] - 128))>>
                   \o DecodeIgnore(Tail(Tail(bytes)))
              ELSE DecodeIgnore(Tail(bytes))

RECURSIVE UniversalNewlines_CrLfOnly(_)
UniversalNewlines_CrLfOnly(chars) ==
    IF chars = <<>> THEN <<>>
    ELSE IF Head(chars) = "\r" /\ Len(chars) >= 2 /\ chars[2] = "\n"
         THEN <<"\n">> \o UniversalNewlines_CrLfOnly(Tail(Tail(chars)))
         ELSE <<Head(chars)>> \o UniversalNewlines_CrLfOnly(Tail(chars))

RECURSIVE UniversalNewlines(_)
UniversalNewlines(chars) ==
    IF chars = <<>> THEN <<>>
    ELSE IF Head(chars) = "\r"
         THEN IF Len(chars) >= 2 /\ chars[2] = "\n"
              THEN <<"\n">> \o UniversalNewlines(Tail(Tail(chars)))
              ELSE <<"\n">> \o UniversalNewlines(Tail(chars))
         ELSE <<Head(chars)>> \o UniversalNewlines(Tail(chars))

\* with open(...) as f: content = f.read()  -- the exception or the text
OpenAndRead(st, path) ==
    IF st.kind = "file"
    THEN [raised |-> FALSE, value |-> UniversalNewlines(DecodeIgnore(st.bytes))]
    ELSE [raised |-> TRUE, value |-> StrError(st, path)]

\* f"[Ошибка чтения файла: {os.path.basename(file_path)}\nПричина: {str(e)}]"
ErrorMsg(path, e) ==
    <<"[Oshibka chteniya faila: ">> \o Basename(path)
        \o <<"\nPrichina: ">> \o e \o <<"]">>

\* a reader whose handler lets the failure through (except clause missing)
ReadCodeFile_Propagates(st, path) == OpenAndRead(st, path)

\* DocumentGenerator._read_code_file: try / except Exception
ReadCodeFile(st, path) ==
    LET r == OpenAndRead(st, path) IN
    IF r.raised THEN [raised |-> FALSE, value |-> ErrorMsg(path, r.value)]
    ELSE r

\* a reader that reports the whole path where the base name belongs
ReadFile_FullPath(st, path) ==
    LET r == OpenAndRead(st, path) IN
    IF r.raised
    THEN [raised |-> FALSE,
          value |-> <<"[Oshibka chteniya faila: ">> \o PathStr(path)
                    \o <<"\nPrichina: ">> \o r.value \o <<"]">>]
    ELSE r

\* FileManager.read_file (encoding = "utf-8"): try / except Exception
ReadFile(st, path) ==
    LET r == OpenAndRead(st, path) IN
    IF r.raised THEN [raised |-> FALSE, value |-> ErrorMsg(path, r.value)]
    ELSE r


(***************************************************************************)
(* State.                                                                  *)
(*   generate:  code_files, fs, templateExists, outDirOk are the inputs    *)
(*              and the environment; pc the position in generate; it the   *)
(*              number of items of enumerate(code_files, 1) consumed;      *)
(*              final_doc the python-docx document in memory; temp_file    *)
(*              the name from NamedTemporaryFile; tempFiles the files of   *)
(*              the temp directory; outFile the file at output_path;       *)
(*              result the value returned; caught the stage whose          *)
(*              exception reached "except Exception"; envFault the stage   *)
(*              at which the environment (library, OS) failed; outFile0    *)
(*              the file at output_path before the first run; run the      *)
(*              number of the call of generate; prevRun what the call      *)
(*              before it returned and left at output_path.                *)
(*   find_code_files:  dirKind and listing are the directory tree (the     *)
(*              kind of every directory, its files in scandir order); wpc  *)
(*              the position; stack the directories os.walk has still to   *)
(*              visit; found_files the list being built; yielded the       *)
(*              directories os.walk has yielded, in order; w_caught        *)
(*              whether an exception reached "except Exception"; w_fault   *)
(*              whether an exception other than a listing error occurred;  *)
(*              w_ret what the call returned.                              *)
(*   readers:   rd_path and rd_st the path read and what open() finds      *)
(*              there; rd_fm and rd_dg the outcome of FileManager.read_file*)
(*              and of DocumentGenerator._read_code_file.                  *)
(*   AppLogger: log_enabled, log_path, log_initialized are _enabled,       *)
(*              _log_path, _initialized; handlers is _logger.handlers;     *)
(*              log_env says for every log directory whether it can be     *)
(*              created and a log file opened in it; log_configures counts *)
(*              the calls of configure; log_last is the last call made on  *)
(*              the logger: the method, whether it raised, and for every   *)
(*              record it logged the sinks the record was written to.      *)
(*   ConfigManager: cfg_file is the file config.json, config is            *)
(*              self.config, cfg_last the last call made on the manager:   *)
(*              the method, whether it raised, and what it returned.       *)
(*   MireaReportGenerator: form holds the values of the four text fields;  *)
(*              save_nearby the check box; selected_save_directory and     *)
(*              self_found_files the attributes of these names (the empty  *)
(*              sequence for None); apc the position in generate_document, *)
(*              dpc the position in find_code_files; alerts the alerts     *)
(*              shown, in order; doc_generator, output_filename and        *)
(*              output_path the locals of generate_document.               *)
(*   two overlapping calls of generate: g_files, g_pc, g_it, g_doc,        *)
(*              g_temp and g_result are code_files, the position,          *)
(*              the loop index, final_doc, temp_file and the value         *)
(*              returned, one for each call; g_tmpdir holds the files of   *)
(*              the temporary directory, each with the call that created   *)
(*              it; g_out is the file at output_path, g_off the position   *)
(*              of each call's handle on it, g_saved the calls whose save  *)
(*              has returned, in that order.                               *)
(*   two threads on the AppLogger: t_pc is the position of each thread in  *)
(*              the call it makes, t_call the call and its arguments,      *)
(*              t_file the directory of the log file name _setup_logger    *)
(*              computed, t_n the number of session lines it has logged,   *)
(*              t_written the records the thread's call handed to the      *)
(*              logger, each with the sinks it was written to.             *)
(*   the form of MireaReportGenerator: selected_directory is the attribute *)
(*              of this name (the empty sequence for None),                *)
(*              generate_btn_disabled is generate_btn.disabled, ui_last    *)
(*              the handler that ran last, the path it was given and the   *)
(*              directory that was selected before it.                     *)
(***************************************************************************)
VARIABLES code_files, fs, templateExists, outDirOk, outFile0, run, prevRun,
          pc, it, final_doc,
          temp_file, tempFiles, outFile, result, caught, envFault,
          dirKind, listing, wpc, stack, found_files, yielded, w_caught,
          w_fault, w_ret,
          rd_path, rd_st, rd_fm, rd_dg,
          log_env, log_enabled, log_path, log_initialized, handlers,
          log_configures, log_last,
          cfg_file, config, cfg_last,
          form, save_nearby, selected_save_directory, self_found_files,
          apc, dpc, alerts, doc_generator, output_filename, output_path,
          g_files, g_pc, g_it, g_doc, g_temp, g_tmpdir, g_out, g_off,
          g_result, g_saved,
          t_pc, t_call, t_file, t_n, t_written,
          selected_directory, generate_btn_disabled, ui_last

genVars == <<code_files, fs, templateExists, outDirOk, outFile0, run, prevRun,
             pc, it, final_doc,
             temp_file, tempFiles, outFile, result, caught, envFault>>

walkVars == <<dirKind, listing, wpc, stack, found_files, yielded, w_caught,
              w_fault, w_ret>>

readVars == <<rd_path, rd_st, rd_fm, rd_dg>>

logVars == <<log_env, log_enabled, log_path, log_initialized, handlers,
             log_configures, log_last>>

cfgVars == <<cfg_file, config, cfg_last>>

appVars == <<form, save_nearby, selected_save_directory, self_found_files,
             apc, dpc, alerts, doc_generator, output_filename, output_path>>

\* two overlapping calls of generate
raceVars == <<g_files, g_pc, g_it, g_doc, g_temp, g_tmpdir, g_out, g_off,
              g_result, g_saved>>

\* the variables of the overlapping callers
threadVars == <<t_pc, t_call, t_file, t_n, t_written>>

uiVars == <<selected_directory, generate_btn_disabled, ui_last>>

extVars == <<raceVars, threadVars, uiVars>>

vars == <<genVars, walkVars, readVars, logVars, cfgVars, appVars, extVars>>

(***************************************************************************)
(* The code files a run is given: three paths, one of them outside the     *)
(* allow-list of extensions.  A readable path holds its own bytes.         *)
(***************************************************************************)
PathA == <<NameD, NameAPy>>
PathB == <<NameD, NameS, NameBCpp>>
PathN == <<NameD, NameNotes>>

GenPaths == {PathA, PathB, PathN}

GenBytes(path) ==
    CASE path = PathA -> <<65>>
      [] path = PathB -> <<65, 13, 10>>
      [] OTHER        -> <<195, 169>>

GenFileStates(path) ==
    {FileState("file", GenBytes(path)), FileState("missing", <<>>),
     FileState("denied", <<>>)}

(***************************************************************************)
(* The document: a sequence of body elements after the rendered cover.     *)
(***************************************************************************)
Element(kind, num, text) == [kind |-> kind, num |-> num, text |-> text]

Cover == Element("cover", 0, <<>>)

\* final_doc.add_page_break()
AddPageBreak(doc) == Append(doc, Element("page_break", 0, <<>>))

\* _add_task_heading: one paragraph, run f"Задание № {task_number}:"
AddTaskHeading(doc, task_number) ==
    Append(doc, Element("heading", task_number, <<"Zadanie No ", ":">>))

\* _add_code_content: one paragraph, run code_content
AddCodeContent(doc, code_content) ==
    Append(doc, Element("code", 0, code_content))

\* enumerate over a list with repeated paths removed
RECURSIVE Dedup(_)
Dedup(files) ==
    IF files = <<>> THEN <<>>
    ELSE LET rest == Dedup(SubSeq(files, 1, Len(files) - 1)) IN
         IF Last(files) \in Range(rest) THEN rest ELSE Append(rest, Last(files))

Enumerate_Dedup(files) ==
    [i \in 1..Len(Dedup(files)) |-> <<i, Dedup(files)[i]>>]

\* enumerate(code_files, 1)
Enumerate(files) == [i \in 1..Len(files) |-> <<i, files[i]>>]

\* a page break before every section, the first included
PageBreakBefore_Always(idx) == idx >= 1

\* if idx > 1
PageBreakBefore(idx) == idx > 1

NoFile == [state |-> "absent", doc |-> <<>>]

\* a document an earlier program left at output_path
OldFile == [state |-> "old", doc |-> <<Cover, Element("code", 0, <<"old">>)>>]

NoRun == [result |-> "none", out |-> NoFile]

\* an open that succeeds wherever the path lies
OpensForWriting_Always(dirOk, file) == TRUE

\* open(output_path, "w+b") creates the file where the parent directory
\* allows it, and truncates a file that is there
OpensForWriting(dirOk, file) == dirOk \/ file.state # "absent"

\* a save that leaves a file already at the path as it is
SaveDocument_KeepOld(old, doc) ==
    IF old.state = "absent" THEN [state |-> "written", doc |-> doc] ELSE old

\* a save that adds the document to the one already at the path
SaveDocument_Merge(old, doc) ==
    [state |-> "written", doc |-> old.doc \o doc]

\* final_doc.save(output_path): the file holds the document, whatever it
\* held before
SaveDocument(old, doc) == [state |-> "written", doc |-> doc]

GenInit ==
    /\ code_files \in SeqsUpTo(GenPaths, MaxFiles)
    /\ fs \in {f \in [GenPaths -> UNION {GenFileStates(p) : p \in GenPaths}] :
                 \A p \in GenPaths : f[p] \in GenFileStates(p)}
    /\ templateExists \in BOOLEAN
    /\ outDirOk \in BOOLEAN
    /\ outFile0 \in {NoFile, OldFile}
    /\ outFile = outFile0
    /\ run = 1
    /\ prevRun = NoRun
    /\ pc = "load"
    /\ it = 0
    /\ final_doc = <<>>
    /\ temp_file = 0
    /\ tempFiles = {}
    /\ result = "none"
    /\ caught = "none"
    /\ envFault = "none"

\* what no step of a run changes: its arguments, the environment it reads,
\* the file that was at output_path before the first run, and the record
\* of the runs before it
genInputs == <<code_files, fs, templateExists, outDirOk, outFile0, run, prevRun>>

\* except Exception as e: ... return False      (lines 116-121)
Except(stage, fault) ==
    /\ pc' = "done"
    /\ result' = "False"
    /\ caught' = stage
    /\ envFault' = fault

\* doc = DocxTemplate(self.template_path)
LoadTemplate ==
    /\ pc = "load"
    /\ \/ /\ pc' = "render"
          /\ UNCHANGED <<result, caught, envFault>>
       \/ Except("load", "load")
    /\ UNCHANGED <<walkVars, readVars, logVars, cfgVars, appVars, extVars, genInputs, it, final_doc, temp_file, tempFiles, outFile>>

\* doc.render(context)
Render ==
    /\ pc = "render"
    /\ \/ /\ templateExists
          /\ pc' = "mktemp"
          /\ UNCHANGED <<result, caught, envFault>>
       \/ Except("render", "render")
    /\ UNCHANGED <<walkVars, readVars, logVars, cfgVars, appVars, extVars, genInputs, it, final_doc, temp_file, tempFiles, outFile>>

\* the name NamedTemporaryFile picks: one no file of the directory has
FreshTemp == CHOOSE n \in 1..(Cardinality(tempFiles) + 1) : n \notin tempFiles

\* with tempfile.NamedTemporaryFile(delete=False, suffix=".docx") as tmp
MakeTemp ==
    /\ pc = "mktemp"
    /\ \/ /\ temp_file' = FreshTemp
          /\ tempFiles' = tempFiles \cup {FreshTemp}
          /\ pc' = "savetemp"
          /\ UNCHANGED <<result, caught, envFault>>
       \/ /\ Except("mktemp", "mktemp")
          /\ UNCHANGED <<temp_file, tempFiles>>
    /\ UNCHANGED <<walkVars, readVars, logVars, cfgVars, appVars, extVars, genInputs, it, final_doc, outFile>>

\* doc.save(temp_file)
SaveTemp ==
    /\ pc = "savetemp"
    /\ \/ /\ pc' = "open"
          /\ UNCHANGED <<result, caught, envFault>>
       \/ Except("savetemp", "savetemp")
    /\ UNCHANGED <<walkVars, readVars, logVars, cfgVars, appVars, extVars, genInputs, it, final_doc, temp_file, tempFiles, outFile>>

\* final_doc = Document(temp_file)
OpenDocument ==
    /\ pc = "open"
    /\ \/ /\ temp_file \in tempFiles
          /\ final_doc' = <<Cover>>
          /\ pc' = "loop"
          /\ UNCHANGED <<result, caught, envFault>>
       \/ /\ Except("open", "open")
          /\ UNCHANGED final_doc
    /\ UNCHANGED <<walkVars, readVars, logVars, cfgVars, appVars, extVars, genInputs, it, temp_file, tempFiles, outFile>>

\* one iteration of: for idx, file_path in enumerate(code_files, 1)
AppendSection ==
    /\ pc = "loop"
    /\ it < Len(Enumerate(code_files))
    /\ LET item == Enumerate(code_files)[it + 1]
           idx == item[1]
           file_path == item[2]
           d1 == IF PageBreakBefore(idx) THEN AddPageBreak(final_doc)
                 ELSE final_doc
           d2 == AddTaskHeading(d1, idx)
           r == ReadCodeFile(fs[file_path], file_path)
       IN \/ /\ ~r.raised
             /\ final_doc' = AddCodeContent(d2, r.value)
             /\ it' = it + 1
             /\ UNCHANGED <<pc, result, caught, envFault>>
          \/ /\ r.raised
             /\ final_doc' = d2
             /\ Except("read", envFault)
             /\ UNCHANGED it
          \/ /\ PageBreakBefore(idx)
             /\ Except("assemble", "assemble")
             /\ UNCHANGED <<final_doc, it>>
          \/ /\ final_doc' = d1
             /\ Except("assemble", "assemble")
             /\ UNCHANGED it
          \/ /\ ~r.raised
             /\ final_doc' = d2
             /\ Except("assemble", "assemble")
             /\ UNCHANGED it
    /\ UNCHANGED <<walkVars, readVars, logVars, cfgVars, appVars, extVars, genInputs, temp_file, tempFiles, outFile>>

\* a loop that can be left before its last item
LoopExhausted_Anytime(n, items) == TRUE

\* the for loop over enumerate(code_files, 1) has no item left
LoopExhausted(n, items) == n >= Len(items)

\* final_doc.save(output_path): the archive is opened for writing (created
\* or truncated), then written part by part
SaveFinal ==
    /\ pc = "loop"
    /\ LoopExhausted(it, Enumerate(code_files))
    /\ \/ /\ OpensForWriting(outDirOk, outFile)
          /\ outFile' = SaveDocument(outFile, final_doc)
          /\ pc' = "cleanup"
          /\ UNCHANGED <<result, caught, envFault>>
       \/ /\ Except("save", "save")
          /\ UNCHANGED outFile
       \/ /\ OpensForWriting(outDirOk, outFile)
          /\ outFile' = [state |-> "partial", doc |-> <<>>]
          /\ Except("save", "save")
    /\ UNCHANGED <<walkVars, readVars, logVars, cfgVars, appVars, extVars, genInputs, it, final_doc, temp_file, tempFiles>>

\* if os.path.exists(temp_file): os.remove(temp_file) ... return True
Cleanup ==
    /\ pc = "cleanup"
    /\ \/ /\ tempFiles' = tempFiles \ {temp_file}
          /\ pc' = "done"
          /\ result' = "True"
          /\ UNCHANGED <<caught, envFault>>
       \/ /\ temp_file \in tempFiles
          /\ Except("remove", "remove")
          /\ UNCHANGED tempFiles
    /\ UNCHANGED <<walkVars, readVars, logVars, cfgVars, appVars, extVars, genInputs, it, final_doc, temp_file, outFile>>

\* generate is called again on the same generator with the same arguments:
\* a new frame, the files of the first call where it left them
Rerun ==
    /\ pc = "done"
    /\ run = 1
    /\ run' = 2
    /\ prevRun' = [result |-> result, out |-> outFile]
    /\ pc' = "load"
    /\ it' = 0
    /\ final_doc' = <<>>
    /\ temp_file' = 0
    /\ result' = "none"
    /\ caught' = "none"
    /\ envFault' = "none"
    /\ UNCHANGED <<walkVars, readVars, logVars, cfgVars, appVars, extVars, code_files, fs, templateExists, outDirOk,
                   outFile0, tempFiles, outFile>>

GenParked ==
    /\ code_files = <<>>
    /\ fs = [p \in GenPaths |-> MissingFile]
    /\ templateExists = FALSE
    /\ outDirOk = FALSE
    /\ outFile0 = NoFile
    /\ outFile = NoFile
    /\ run = 1
    /\ prevRun = NoRun
    /\ pc = "parked"
    /\ it = 0
    /\ final_doc = <<>>
    /\ temp_file = 0
    /\ tempFiles = {}
    /\ result = "none"
    /\ caught = "none"
    /\ envFault = "none"

(***************************************************************************)
(* FileManager.find_code_files over a directory tree                       *)
(*        D --+-- s --- u                                                  *)
(*            +-- t                                                        *)
(* The root may be a directory, a directory that cannot be listed, missing *)
(* or a plain file; a subdirectory may be listable, not listable, or (s) a *)
(* symbolic link to a directory.                                           *)
(***************************************************************************)
DirRoot == <<NameD>>
DirS == <<NameD, NameS>>
DirU == <<NameD, NameS, NameU>>
DirT == <<NameD, NameT>>

Dirs == {DirRoot, DirS, DirU, DirT}

TreeNames == {NameAPy, NameUpperPy, NameBCpp, NamePyTxt}

Parent(d) == SubSeq(d, 1, Len(d) - 1)

Children(d) == {e \in Dirs : Len(e) = Len(d) + 1 /\ Parent(e) = d}

\* CODE_EXTENSIONS
CODE_EXTENSIONS ==
    << <<".", "p", "y">>, <<".", "c", "p", "p">>, <<".", "c">>, <<".", "h">>,
       <<".", "h", "p", "p">>, <<".", "j", "a", "v", "a">>, <<".", "j", "s">>,
       <<".", "k", "t">>, <<".", "g", "o">>, <<".", "r", "s">> >>

Lower(c) ==
    CASE c = "A" -> "a"
      [] c = "P" -> "p"
      [] c = "Y" -> "y"
      [] OTHER   -> c

\* a suffix test that ignores case
EndsWith_IgnoreCase(file, ext) ==
    /\ Len(file) >= Len(ext)
    /\ \A i \in 1..Len(ext) :
          Lower(file[Len(file) - Len(ext) + i]) = Lower(ext[i])

\* file.endswith(ext)
EndsWith(file, ext) ==
    /\ Len(file) >= Len(ext)
    /\ SubSeq(file, Len(file) - Len(ext) + 1, Len(file)) = ext

\* any(file.endswith(ext) for ext in cls.CODE_EXTENSIONS)
IsCodeFile(file) ==
    \E i \in 1..Len(CODE_EXTENSIONS) : EndsWith(file, CODE_EXTENSIONS[i])

\* for file in files: if any(...): found_files.append(os.path.join(root, file))
RECURSIVE ScanFiles(_, _, _)
ScanFiles(found, root, files) ==
    IF files = <<>> THEN found
    ELSE ScanFiles(IF IsCodeFile(Head(files))
                   THEN Append(found, PathJoin(root, Head(files)))
                   ELSE found,
                   root, Tail(files))

\* a walk that lets a listing error out to its caller
OnError_Raise == "raise"

\* os.walk(directory): onerror=None, a listing error is dropped
OnError == "ignore"

\* os.scandir(top) succeeds
Listable(kinds, d) == kinds[d] = "dir"

\* os.walk descends into the entries that are directories and no links
Descends(kinds, d) == kinds[d] \in {"dir", "denied"}

Perms(S) ==
    {q \in [1..Cardinality(S) -> S] : \A i, j \in 1..Cardinality(S) :
                                          i # j => q[i] # q[j]}

TreeKinds ==
    {k \in [Dirs -> {"dir", "denied", "link", "missing", "notdir", "absent"}] :
        \/ /\ k[DirRoot] \in {"dir", "denied"}
           /\ k[DirS] \in {"dir", "denied", "link"}
           /\ k[DirU] \in {"dir", "denied"}
           /\ k[DirT] \in {"dir", "denied"}
        \/ /\ k[DirRoot] \in {"missing", "notdir"}
           /\ \A d \in Dirs \ {DirRoot} : k[d] = "absent"}

NoReturn == [raised |-> FALSE, value |-> <<>>]

WalkInit ==
    /\ dirKind \in TreeKinds
    /\ listing = [d \in Dirs |-> <<>>]
    /\ wpc = "setup"
    /\ stack = <<>>
    /\ found_files = <<>>
    /\ yielded = <<>>
    /\ w_caught = FALSE
    /\ w_fault = FALSE
    /\ w_ret = NoReturn

WalkParked ==
    /\ dirKind = [d \in Dirs |-> "absent"]
    /\ listing = [d \in Dirs |-> <<>>]
    /\ wpc = "parked"
    /\ stack = <<>>
    /\ found_files = <<>>
    /\ yielded = <<>>
    /\ w_caught = FALSE
    /\ w_fault = FALSE
    /\ w_ret = NoReturn

TreeSize == Len(Flatten([i \in 1..4 |-> listing[<<DirRoot, DirS, DirU, DirT>>[i]]]))

\* the tree before the call: a file appears in an existing directory
CreateFile ==
    /\ wpc = "setup"
    /\ TreeSize < MaxTreeFiles
    /\ \E d \in Dirs, n \in TreeNames :
          /\ dirKind[d] \in {"dir", "denied", "link"}
          /\ n \notin Range(listing[d])
          /\ listing' = [listing EXCEPT ![d] = Append(@, n)]
    /\ UNCHANGED <<genVars, readVars, logVars, cfgVars, appVars, extVars, dirKind, wpc, stack, found_files,
                   yielded, w_caught, w_fault, w_ret>>

\* found_files = []; try: for root, dirs, files in os.walk(directory)
StartWalk ==
    /\ wpc = "setup"
    /\ wpc' = "walk"
    /\ stack' = <<DirRoot>>
    /\ found_files' = <<>>
    /\ UNCHANGED <<genVars, readVars, logVars, cfgVars, appVars, extVars, dirKind, listing, yielded, w_caught,
                   w_fault, w_ret>>

\* except Exception as e: ...; return found_files     (lines 51-55)
WalkExcept(fault) ==
    /\ wpc' = "done"
    /\ w_caught' = TRUE
    /\ w_fault' = fault
    /\ w_ret' = [raised |-> FALSE, value |-> found_files]

\* os.walk visits the next directory: top-down, the subdirectories of a
\* directory in the order scandir gave them, before its later siblings
WalkStep ==
    /\ wpc = "walk"
    /\ stack # <<>>
    /\ LET root == Head(stack) IN
       \/ /\ Listable(dirKind, root)
          /\ \E dirs \in Perms(Children(root)) :
                stack' = SelectSeq(dirs, LAMBDA e : Descends(dirKind, e))
                         \o Tail(stack)
          /\ found_files' = ScanFiles(found_files, root, listing[root])
          /\ yielded' = Append(yielded, root)
          /\ UNCHANGED <<wpc, w_caught, w_fault, w_ret>>
       \/ /\ ~Listable(dirKind, root)
          /\ OnError = "ignore"
          /\ stack' = Tail(stack)
          /\ UNCHANGED <<wpc, found_files, yielded, w_caught, w_fault, w_ret>>
       \/ /\ ~Listable(dirKind, root)
          /\ OnError # "ignore"
          /\ WalkExcept(w_fault)
          /\ UNCHANGED <<stack, found_files, yielded>>
    /\ UNCHANGED <<genVars, readVars, logVars, cfgVars, appVars, extVars, dirKind, listing>>

\* an exception that is no listing error (RecursionError, MemoryError)
\* leaves the loop after some iteration
WalkRaise ==
    /\ wpc = "walk"
    /\ yielded # <<>>
    /\ stack # <<>>
    /\ WalkExcept(TRUE)
    /\ UNCHANGED <<genVars, readVars, logVars, cfgVars, appVars, extVars, dirKind, listing, stack, found_files,
                   yielded>>

\* the walk is exhausted: return found_files
WalkReturn ==
    /\ wpc = "walk"
    /\ stack = <<>>
    /\ wpc' = "done"
    /\ w_ret' = [raised |-> FALSE, value |-> found_files]
    /\ UNCHANGED <<genVars, readVars, logVars, cfgVars, appVars, extVars, dirKind, listing, stack, found_files,
                   yielded, w_caught, w_fault>>

(***************************************************************************)
(* The safe readers applied to one path.                                   *)
(***************************************************************************)
RdPaths == {PathA, PathB, <<NameNotes>>}

RdStates ==
    {FileState(k, <<>>) : k \in {"missing", "dir", "denied"}}
        \cup {FileState("file", b) : b \in SeqsUpTo(Bytes, MaxLen)}

NotCalled == [called |-> FALSE, raised |-> FALSE, value |-> <<>>]

Outcome(r) == [called |-> TRUE, raised |-> r.raised, value |-> r.value]

ReadInit ==
    /\ rd_path \in RdPaths
    /\ rd_st \in RdStates
    /\ rd_fm = NotCalled
    /\ rd_dg = NotCalled

ReadParked ==
    /\ rd_path = <<>>
    /\ rd_st = MissingFile
    /\ rd_fm = NotCalled
    /\ rd_dg = NotCalled

\* FileManager.read_file(rd_path)
CallReadFile ==
    /\ ~rd_fm.called
    /\ rd_path # <<>>
    /\ rd_fm' = Outcome(ReadFile(rd_st, rd_path))
    /\ UNCHANGED <<genVars, walkVars, logVars, cfgVars, appVars, extVars, rd_path, rd_st, rd_dg>>

\* DocumentGenerator._read_code_file(rd_path)
CallReadCodeFile ==
    /\ ~rd_dg.called
    /\ rd_path # <<>>
    /\ rd_dg' = Outcome(ReadCodeFile(rd_st, rd_path))
    /\ UNCHANGED <<genVars, walkVars, logVars, cfgVars, appVars, extVars, rd_path, rd_st, rd_fm>>

(***************************************************************************)
(* AppLogger (utils/logger.py): configure and the logging methods.  A log  *)
(* directory can be created and written ("ok"), cannot be created          *)
(* ("nodir": os.makedirs raises), or takes no log file ("nofile": the      *)
(* RotatingFileHandler cannot open it).                                    *)
(***************************************************************************)
LogDirs == {"logs", "elsewhere"}

LogEnvs == [LogDirs -> {"ok", "nodir", "nofile"}]

\* logging.DEBUG .. logging.CRITICAL
LevelNo(level) ==
    CASE level = "DEBUG"    -> 10
      [] level = "INFO"     -> 20
      [] level = "WARNING"  -> 30
      [] level = "ERROR"    -> 40
      [] level = "CRITICAL" -> 50

Handler(kind, level, target) ==
    [kind |-> kind, level |-> level, target |-> target]

\* RotatingFileHandler(log_filename, ...); setLevel(logging.DEBUG)
FileHandler(dir) == Handler("file", "DEBUG", dir)

\* logging.StreamHandler(); setLevel(logging.INFO)
ConsoleHandler == Handler("console", "INFO", "stderr")

\* Logger.log(level, message): every attached handler whose level admits
\* the record writes it to its sink
Emit(hs, level) ==
    LET sel == SelectSeq(hs, LAMBDA h : LevelNo(h.level) <= LevelNo(level))
    IN [i \in 1..Len(sel) |-> <<sel[i].kind, sel[i].target>>]

\* _log(level, message): the records handed to the logger, each with the
\* sinks it was written to
Log(en, initialized, hs, level) ==
    IF en /\ initialized THEN <<Emit(hs, level)>> ELSE <<>>

Methods ==
    {"debug", "info", "warning", "error", "critical", "log_operation",
     "log_exception", "log_file_operation"}

\* the levels of the records a method logs, in order
Records(method) ==
    CASE method = "debug"              -> <<"DEBUG">>
      [] method = "info"               -> <<"INFO">>
      [] method = "warning"            -> <<"WARNING">>
      [] method = "error"              -> <<"ERROR">>
      [] method = "critical"           -> <<"CRITICAL">>
      [] method = "log_operation"      -> <<"INFO">>
      [] method = "log_exception"      -> <<"ERROR">>
      [] method = "log_file_operation" -> <<"INFO", "DEBUG">>

\* a reconfiguration that leaves the attached handlers where they are
ClearedHandlers_Kept(hs) == hs

\* self._logger.handlers.clear()
ClearedHandlers(hs) == <<>>

\* a set-up whose failures leave through configure
SetupLogger_Propagates(env, dir, hs) ==
    IF env = "ok"
    THEN [raised |-> FALSE, enabled |-> TRUE, initialized |-> TRUE,
          handlers |-> hs \o <<FileHandler(dir), ConsoleHandler>>]
    ELSE [raised |-> TRUE, enabled |-> TRUE, initialized |-> FALSE,
          handlers |-> hs]

\* _setup_logger, entered with _enabled and not _initialized: both
\* failures are caught and turn _enabled off; a success attaches the file
\* handler, then the console handler, and sets _initialized
SetupLogger(env, dir, hs) ==
    IF env = "ok"
    THEN [raised |-> FALSE, enabled |-> TRUE, initialized |-> TRUE,
          handlers |-> hs \o <<FileHandler(dir), ConsoleHandler>>]
    ELSE [raised |-> FALSE, enabled |-> FALSE, initialized |-> FALSE,
          handlers |-> hs]

Call(op, raised, emitted) ==
    [op |-> op, raised |-> raised, emitted |-> emitted]

NoCall == Call("none", FALSE, <<>>)

\* the state __init__ leaves
LogInit ==
    /\ log_env \in LogEnvs
    /\ log_enabled = TRUE
    /\ log_path = "logs"
    /\ log_initialized = FALSE
    /\ handlers = <<>>
    /\ log_configures = 0
    /\ log_last = NoCall

LogParked ==
    /\ log_env = [d \in LogDirs |-> "ok"]
    /\ log_enabled = TRUE
    /\ log_path = "logs"
    /\ log_initialized = FALSE
    /\ handlers = <<>>
    /\ log_configures = 0
    /\ log_last = NoCall

\* an __init__ that sets the attributes on every construction
InitAgain_Resets(en, dir, initialized) ==
    [enabled |-> TRUE, log_path |-> "logs", initialized |-> FALSE]

\* __init__ on the singleton that was constructed before:
\* self._logger is not None, nothing is assigned
InitAgain(en, dir, initialized) ==
    [enabled |-> en, log_path |-> dir, initialized |-> initialized]

\* AppLogger() once more: __new__ returns the instance, __init__ runs on it
Construct ==
    /\ LET st == InitAgain(log_enabled, log_path, log_initialized) IN
          /\ log_enabled' = st.enabled
          /\ log_path' = st.log_path
          /\ log_initialized' = st.initialized
    /\ log_last' = Call("construct", FALSE, <<>>)
    /\ UNCHANGED <<genVars, walkVars, readVars, cfgVars, appVars, extVars,
                   log_env, handlers, log_configures>>

\* configure(enabled, log_path), with _setup_logger and the five lines
\* it logs to open the session
Configure ==
    /\ log_configures < MaxConfigures
    /\ \E en \in BOOLEAN, dir \in LogDirs :
          LET hs == IF log_initialized THEN ClearedHandlers(handlers)
                    ELSE handlers
              st == IF en THEN SetupLogger(log_env[dir], dir, hs)
                    ELSE [raised |-> FALSE, enabled |-> FALSE,
                          initialized |-> FALSE, handlers |-> hs]
          IN /\ log_enabled' = st.enabled
             /\ log_path' = dir
             /\ log_initialized' = st.initialized
             /\ handlers' = st.handlers
             /\ log_last' =
                   Call("configure", st.raised,
                        Flatten([i \in 1..5 |->
                                   Log(st.enabled, st.initialized,
                                       st.handlers, "INFO")]))
    /\ log_configures' = log_configures + 1
    /\ UNCHANGED <<genVars, walkVars, readVars, cfgVars, appVars, extVars, log_env>>

\* debug, info, warning, error, critical, log_operation, log_exception,
\* log_file_operation
LogMethod ==
    /\ \E method \in Methods :
          log_last' =
             Call(method, FALSE,
                  Flatten([i \in 1..Len(Records(method)) |->
                             Log(log_enabled, log_initialized, handlers,
                                 Records(method)[i])]))
    /\ UNCHANGED <<genVars, walkVars, readVars, cfgVars, appVars, extVars, log_env,
                   log_enabled, log_path, log_initialized, handlers,
                   log_configures>>

\* is_enabled()
IsEnabled == log_enabled

(***************************************************************************)
(* ConfigManager (core/config.py).  A Python value is a dict, a list, a    *)
(* str, an int or None; a dict maps each of the ten keys to a value or to  *)
(* Absent, a list and a str hold tokens.  The values of a dict are token   *)
(* sequences, True and False being the one-token <<"True">>, <<"False">>.  *)
(***************************************************************************)
Keys ==
    {"group", "student_name", "teacher_name", "work_number",
     "last_directory", "template_path", "save_directory", "save_nearby",
     "logging_enabled", "log_directory"}

Absent == <<"<absent>">>

NoMembers == [k \in Keys |-> Absent]

PyDict(m) == [type |-> "dict", members |-> m, items |-> <<>>]

PyList(items) == [type |-> "list", members |-> NoMembers, items |-> items]

PyStr(tokens) == [type |-> "str", members |-> NoMembers, items |-> tokens]

PyInt == [type |-> "int", members |-> NoMembers, items |-> <<>>]

PyNone == [type |-> "NoneType", members |-> NoMembers, items |-> <<>>]

\* _get_default_config()
DefaultConfig ==
    PyDict([k \in Keys |->
               CASE k = "template_path"   -> <<"template.docx">>
                 [] k = "save_nearby"     -> <<"True">>
                 [] k = "logging_enabled" -> <<"True">>
                 [] k = "log_directory"   -> <<"logs">>
                 [] OTHER                 -> <<>>])

\* key in v: a key of a dict, an item of a list, a part of a str;
\* TypeError for an int and for None
Contains(v, key) ==
    CASE v.type = "dict" -> [raised |-> FALSE, value |-> v.members[key] # Absent]
      [] v.type \in {"list", "str"} ->
            [raised |-> FALSE, value |-> key \in Range(v.items)]
      [] OTHER -> [raised |-> TRUE, value |-> FALSE]

\* v[key] = val: TypeError for all but a dict
SetItem(v, key, val) ==
    IF v.type = "dict"
    THEN [raised |-> FALSE,
          value |-> PyDict([v.members EXCEPT ![key] = val])]
    ELSE [raised |-> TRUE, value |-> v]

\* if key not in config_data: config_data[key] = val
SetDefault(r, key, val) ==
    IF r.raised THEN r
    ELSE LET c == Contains(r.value, key) IN
         IF c.raised THEN [raised |-> TRUE, value |-> r.value]
         ELSE IF c.value THEN r
         ELSE SetItem(r.value, key, val)

\* config.json: missing, not to be opened, no JSON text, or a JSON value
CfgFile(kind, value) == [kind |-> kind, value |-> value]

\* with open(self.config_file, "r", encoding="utf-8") as f: json.load(f)
JsonLoad(file) ==
    IF file.kind = "json" THEN [raised |-> FALSE, value |-> file.value]
    ELSE [raised |-> TRUE, value |-> PyNone]

\* ConfigManager.load
Load(file) ==
    IF file.kind = "missing"
    THEN [raised |-> FALSE, value |-> DefaultConfig]
    ELSE LET r == SetDefault(SetDefault(JsonLoad(file), "logging_enabled",
                                        <<"True">>),
                             "log_directory", <<"logs">>)
         IN IF r.raised THEN [raised |-> FALSE, value |-> DefaultConfig]
            ELSE r

\* self.config.get(key, default): AttributeError for all but a dict
Get(v, key, default) ==
    IF v.type # "dict" THEN [raised |-> TRUE, value |-> default]
    ELSE IF v.members[key] = Absent THEN [raised |-> FALSE, value |-> default]
    ELSE [raised |-> FALSE, value |-> v.members[key]]

\* the first lines of save: the logging settings missing from
\* config_data are taken from self.config
WithLoggingSettings(cur, data) ==
    LET e == IF data.members["logging_enabled"] # Absent
             THEN [raised |-> FALSE, value |-> data]
             ELSE LET g == Get(cur, "logging_enabled", <<"True">>) IN
                  IF g.raised THEN [raised |-> TRUE, value |-> data]
                  ELSE SetItem(data, "logging_enabled", g.value)
    IN IF e.raised THEN e
       ELSE IF e.value.members["log_directory"] # Absent THEN e
       ELSE LET g == Get(cur, "log_directory", <<"logs">>) IN
            IF g.raised THEN [raised |-> TRUE, value |-> e.value]
            ELSE SetItem(e.value, "log_directory", g.value)

CfgCall(op, raised, value, ok) ==
    [op |-> op, raised |-> raised, value |-> value, ok |-> ok]

\* a save that replaces self.config before it writes the file
ConfigAfterSave_Early(cur, data, written) == data

\* self.config = config_data, the statement after the with block: reached
\* when the file was written, skipped when open or json.dump raised
ConfigAfterSave(cur, data, written) == IF written THEN data ELSE cur

\* ConfigManager.save(config_data): the file is opened for writing, which
\* empties it, then written, then self.config is replaced; any failure is
\* caught and answered with False
Save(data) ==
    LET d == WithLoggingSettings(config, data) IN
    \/ /\ ~d.raised
       /\ cfg_file.kind # "denied"
       /\ cfg_file' = CfgFile("json", d.value)
       /\ config' = ConfigAfterSave(config, d.value, TRUE)
       /\ cfg_last' = CfgCall("save", FALSE, d.value, TRUE)
    \/ /\ UNCHANGED cfg_file
       /\ config' = ConfigAfterSave(config, d.value, FALSE)
       /\ cfg_last' = CfgCall("save", FALSE, data, FALSE)
    \/ /\ ~d.raised
       /\ cfg_file.kind # "denied"
       /\ cfg_file' = CfgFile("invalid", PyNone)
       /\ config' = ConfigAfterSave(config, d.value, FALSE)
       /\ cfg_last' = CfgCall("save", FALSE, d.value, FALSE)

\* ConfigManager.update(key, value): self.config[key] = value, which
\* raises for a config that is no dict, then self.save(self.config):
\* config_data is self.config itself, changed before the file is opened
Update(key, value) ==
    LET s == SetItem(config, key, value)
        d == WithLoggingSettings(s.value, s.value)
        kept == IF d.raised THEN s.value ELSE d.value
    IN IF s.raised
       THEN /\ UNCHANGED <<cfg_file, config>>
            /\ cfg_last' = CfgCall("update", TRUE, config, FALSE)
       ELSE \/ /\ ~d.raised
               /\ cfg_file.kind # "denied"
               /\ cfg_file' = CfgFile("json", d.value)
               /\ config' = d.value
               /\ cfg_last' = CfgCall("update", FALSE, d.value, TRUE)
            \/ /\ UNCHANGED cfg_file
               /\ config' = kept
               /\ cfg_last' = CfgCall("update", FALSE, kept, FALSE)
            \/ /\ ~d.raised
               /\ cfg_file.kind # "denied"
               /\ cfg_file' = CfgFile("invalid", PyNone)
               /\ config' = kept
               /\ cfg_last' = CfgCall("update", FALSE, kept, FALSE)

\* the values a JSON file of the model holds
JsonTokens == {"logging_enabled", "log_directory", "x"}

SomeMembers ==
    {[k \in Keys |-> IF k \in S THEN <<k>> ELSE Absent] :
        S \in SUBSET {"group", "logging_enabled", "log_directory"}}

JsonValues ==
    {PyDict(m) : m \in SomeMembers}
        \cup {PyList(t) : t \in SeqsUpTo(JsonTokens, MaxItems)}
        \cup {PyStr(t) : t \in SeqsUpTo(JsonTokens, MaxItems)}
        \cup {PyInt, PyNone, DefaultConfig}

CfgFiles ==
    {CfgFile(k, PyNone) : k \in {"missing", "denied", "invalid"}}
        \cup {CfgFile("json", v) : v \in JsonValues}

NotConstructed == PyStr(<<"<not constructed>">>)

CfgInit ==
    /\ cfg_file \in CfgFiles
    /\ config = NotConstructed
    /\ cfg_last = CfgCall("none", FALSE, PyNone, FALSE)

CfgParked ==
    /\ cfg_file = CfgFile("missing", PyNone)
    /\ config = NotConstructed
    /\ cfg_last = CfgCall("none", FALSE, PyNone, FALSE)

\* ConfigManager.__init__: self.config = self.load()
ConfigManagerInit ==
    /\ config = NotConstructed
    /\ config' = Load(cfg_file).value
    /\ cfg_last' = CfgCall("load", Load(cfg_file).raised,
                           Load(cfg_file).value, TRUE)
    /\ UNCHANGED <<genVars, walkVars, readVars, logVars, appVars, extVars, cfg_file>>

\* the values save is called with: all keys but the logging settings, or
\* all ten
SaveData ==
    {PyDict([k \in Keys |->
               IF k \in {"logging_enabled", "log_directory"} THEN Absent
               ELSE <<k>>]),
     DefaultConfig}

\* ConfigManager.save(config_data) called on the constructed manager
CallSave ==
    /\ config # NotConstructed
    /\ \E data \in SaveData : Save(data)
    /\ UNCHANGED <<genVars, walkVars, readVars, logVars, appVars, extVars>>

\* the keys and values update is called with
UpdateArgs == {<<"group", <<"x">>>>, <<"logging_enabled", <<"False">>>>}

\* ConfigManager.update(key, value) called on the constructed manager
CallUpdate ==
    /\ config # NotConstructed
    /\ \E kv \in UpdateArgs : Update(kv[1], kv[2])
    /\ UNCHANGED <<genVars, walkVars, readVars, logVars, appVars, extVars>>

(***************************************************************************)
(* MireaReportGenerator (ui/app.py): the handler generate_document, the    *)
(* discovery find_code_files stores, and the file name of the report.  A   *)
(* string is a sequence of characters and of literals of the source.       *)
(***************************************************************************)
\* "Отчёт_по_практической_работе_№"
Prefix == "Otchyot_po_prakticheskoi_rabote_No"

\* a replace that stops after the first occurrence
RECURSIVE Replace_FirstOnly(_, _, _)
Replace_FirstOnly(str, old, new) ==
    IF str = <<>> THEN <<>>
    ELSE IF Head(str) = old THEN <<new>> \o Tail(str)
    ELSE <<Head(str)>> \o Replace_FirstOnly(Tail(str), old, new)

\* str.replace(old, new), old and new one character each
Replace(str, old, new) ==
    [i \in 1..Len(str) |-> IF str[i] = old THEN new ELSE str[i]]

\* DocumentGenerator.generate_filename
GenerateFilename(work_number, student_name) ==
    <<Prefix>> \o work_number \o <<"_">>
        \o Replace(student_name, " ", "_") \o <<".docx">>

\* os.path.join(directory, filename), filename not absolute
JoinStr(directory, filename) ==
    IF directory = <<>> \/ Last(directory) = "/" THEN directory \o filename
    ELSE directory \o <<"/">> \o filename

\* _determine_output_path: the path, or an alert and None
DetermineOutputPath(nearby, directory, filename) ==
    IF nearby THEN [alert |-> FALSE, path |-> filename]
    ELSE IF directory = <<>> THEN [alert |-> TRUE, path |-> <<>>]
    ELSE [alert |-> FALSE, path |-> JoinStr(directory, filename)]

AlertTemplate == "Fail shablona ne naiden"
AlertNoFiles == "Ne vybrany faily s kodom!"
AlertNoSaveDirectory == "Ne vybrana papka dlya sohraneniya!"
AlertSuccess == "Dokument uspeshno sozdan!"
AlertFailed == "Ne udalos sozdat dokument. Proverte logi."

\* str(e) of the exception generate caught in a stage
ExceptionText(stage) == "error in " \o stage

\* "Произошла ошибка при создании документа:\n\n" f"{str(ex)}", the alert
\* of the handler's own except clause
ErrorMessage(text) == "Proizoshla oshibka pri sozdanii dokumenta: " \o text

\* _validate_generation_inputs: the alert of the first empty field, of an
\* empty file list, or "ok"
ValidateGenerationInputs(f, files) ==
    CASE f.group = <<>>        -> "Zapolnite pole 'Gruppa'!"
      [] f.student_name = <<>> -> "Zapolnite pole 'FIO studenta'!"
      [] f.teacher_name = <<>> -> "Zapolnite pole 'FIO prepodavatelya'!"
      [] f.work_number = <<>>  -> "Zapolnite pole 'Nomer raboty'!"
      [] files = <<>>          -> AlertNoFiles
      [] OTHER                 -> "ok"

\* a handler that does not look for the template
TemplateFound_Unchecked(exists) == TRUE

\* os.path.exists(template_path)
TemplateFound(exists) == exists

\* a handler that saves the configuration whatever generate returned
SavesConfig_Always(success) == TRUE

\* if success: self._save_current_config()
SavesConfig(success) == success

Form(g, s, t, w) ==
    [group |-> g, student_name |-> s, teacher_name |-> t, work_number |-> w]

\* the forms of a run of the handler: all fields filled, or one left empty
Forms ==
    {Form(<<"G">>, <<"I", " ", "P">>, <<"T">>, <<"7">>),
     Form(<<>>, <<"I", " ", "P">>, <<"T">>, <<"7">>),
     Form(<<"G">>, <<>>, <<"T">>, <<"7">>),
     Form(<<"G">>, <<"I", " ", "P">>, <<>>, <<"7">>),
     Form(<<"G">>, <<"I", " ", "P">>, <<"T">>, <<>>)}

SaveDirectories == {<<"/", "o">>, <<"/", "o", "/">>}

TemplateField == <<"template.docx">>

Bool(b) == IF b THEN <<"True">> ELSE <<"False">>

\* _save_current_config: config_data
ConfigData ==
    PyDict([k \in Keys |->
               CASE k = "group"          -> form.group
                 [] k = "student_name"   -> form.student_name
                 [] k = "teacher_name"   -> form.teacher_name
                 [] k = "work_number"    -> form.work_number
                 [] k = "last_directory" -> PathStr(DirRoot)
                 [] k = "template_path"  -> TemplateField
                 [] k = "save_directory" -> selected_save_directory
                 [] k = "save_nearby"    -> Bool(save_nearby)
                 [] OTHER                -> Absent])

\* the application is constructed, a directory was chosen, and the user
\* is about to press the button
AppInit ==
    /\ form \in Forms
    /\ save_nearby \in BOOLEAN
    /\ selected_save_directory \in {<<>>, <<"/", "o">>}
    /\ self_found_files = <<>>
    /\ apc = "idle"
    /\ dpc = "walking"
    /\ alerts = <<>>
    /\ doc_generator = "None"
    /\ output_filename = <<>>
    /\ output_path = <<>>

AppParked ==
    /\ form = Form(<<>>, <<>>, <<>>, <<>>)
    /\ save_nearby = TRUE
    /\ selected_save_directory = <<>>
    /\ self_found_files = <<>>
    /\ apc = "parked"
    /\ dpc = "parked"
    /\ alerts = <<>>
    /\ doc_generator = "None"
    /\ output_filename = <<>>
    /\ output_path = <<>>

\* the handler stands after the template test with fields that passed the
\* validation: any work number and student name that are not empty
NameChars == {"I", " ", "_"}

WorkChars == {"7", " "}

NameInit ==
    /\ form \in {Form(<<"G">>, s, <<"T">>, w) :
                    s \in SeqsUpTo(NameChars, MaxLen) \ {<<>>},
                    w \in SeqsUpTo(WorkChars, MaxLen) \ {<<>>}}
    /\ save_nearby \in BOOLEAN
    /\ selected_save_directory \in {<<>>} \cup SaveDirectories
    /\ self_found_files = <<PathA>>
    /\ apc = "try"
    /\ dpc = "stored"
    /\ alerts = <<>>
    /\ doc_generator = "None"
    /\ output_filename = <<>>
    /\ output_path = <<>>

\* what the handler finds: generate not yet called
GenIdle ==
    /\ code_files = <<>>
    /\ fs \in {[p \in GenPaths |->
                  IF p = PathA THEN a
                  ELSE IF p = PathB THEN FileState("file", GenBytes(p))
                  ELSE MissingFile] : a \in GenFileStates(PathA)}
    /\ templateExists \in BOOLEAN
    /\ outDirOk \in BOOLEAN
    /\ outFile0 \in {NoFile, OldFile}
    /\ outFile = outFile0
    /\ run = 1
    /\ prevRun = NoRun
    /\ pc = "idle"
    /\ it = 0
    /\ final_doc = <<>>
    /\ temp_file = 0
    /\ tempFiles = {}
    /\ result = "none"
    /\ caught = "none"
    /\ envFault = "none"

\* the chosen directory: a.py in D, b.cpp in D/s
WalkOfApp ==
    /\ dirKind \in {k \in TreeKinds :
                      /\ k[DirRoot] \in {"dir", "missing"}
                      /\ k[DirRoot] = "dir" => k[DirU] = "dir" /\ k[DirT] = "dir"}
    /\ listing = [d \in Dirs |->
                    IF d = DirRoot THEN <<NameAPy, NameNotes>>
                    ELSE IF d = DirS THEN <<NameBCpp>> ELSE <<>>]
    /\ wpc = "setup"
    /\ stack = <<>>
    /\ found_files = <<>>
    /\ yielded = <<>>
    /\ w_caught = FALSE
    /\ w_fault = FALSE
    /\ w_ret = NoReturn

\* ConfigManager() of the application: config.json missing or saved before
CfgOfApp ==
    /\ cfg_file \in {CfgFile("missing", PyNone), CfgFile("json", DefaultConfig)}
    /\ config = Load(cfg_file).value
    /\ cfg_last = CfgCall("load", FALSE, Load(cfg_file).value, TRUE)

\* a config.json written by an earlier session
StoredConfig(nearby, directory) ==
    PyDict([DefaultConfig.members EXCEPT !["save_nearby"] = Bool(nearby),
                                         !["save_directory"] = directory])

\* config.get("save_nearby", True), the value of the check box
ConfigSaveNearby(cfg) == Get(cfg, "save_nearby", <<"True">>).value = <<"True">>

\* _create_save_section: self.selected_save_directory, None at first, is
\* set from the config only in the elif branch
LoadedSaveDirectory(cfg) ==
    IF ConfigSaveNearby(cfg) THEN <<>>
    ELSE IF Get(cfg, "save_directory", <<>>).value # <<>>
    THEN Get(cfg, "save_directory", <<>>).value
    ELSE <<>>

\* the application starts on a stored config, the form is filled from it,
\* a directory was chosen and the user is about to press the button
StartupInit ==
    /\ cfg_file \in {CfgFile("json", StoredConfig(n, d)) :
                        n \in BOOLEAN, d \in {<<>>, <<"/", "o">>}}
    /\ config = Load(cfg_file).value
    /\ cfg_last = CfgCall("load", FALSE, Load(cfg_file).value, TRUE)
    /\ form \in Forms
    /\ save_nearby = ConfigSaveNearby(config)
    /\ selected_save_directory = LoadedSaveDirectory(config)
    /\ self_found_files = <<>>
    /\ apc = "idle"
    /\ dpc = "walking"
    /\ alerts = <<>>
    /\ doc_generator = "None"
    /\ output_filename = <<>>
    /\ output_path = <<>>

\* find_code_files of the application:
\* self.found_files = self.file_manager.find_code_files(...)
StoreFound ==
    /\ dpc = "walking"
    /\ wpc = "done"
    /\ self_found_files' = w_ret.value
    /\ dpc' = "stored"
    /\ UNCHANGED <<genVars, walkVars, readVars, logVars, extVars, cfgVars, form,
                   save_nearby, selected_save_directory, apc, alerts,
                   doc_generator, output_filename, output_path>>

\* on_directory_selected: the directory is chosen again and
\* find_code_files starts a new search of it
ChooseDirectory ==
    /\ dpc = "stored"
    /\ dpc' = "walking"
    /\ wpc' = "setup"
    /\ stack' = <<>>
    /\ found_files' = <<>>
    /\ yielded' = <<>>
    /\ w_caught' = FALSE
    /\ w_fault' = FALSE
    /\ w_ret' = NoReturn
    /\ UNCHANGED <<genVars, readVars, logVars, extVars, cfgVars, dirKind, listing,
                   form, save_nearby, selected_save_directory,
                   self_found_files, apc, alerts, doc_generator,
                   output_filename, output_path>>

\* if not self._validate_generation_inputs(): return
ValidateInputs ==
    /\ apc = "idle"
    /\ LET v == ValidateGenerationInputs(form, self_found_files) IN
       IF v = "ok" THEN apc' = "template" /\ UNCHANGED alerts
       ELSE apc' = "returned" /\ alerts' = Append(alerts, v)
    /\ UNCHANGED <<genVars, walkVars, readVars, logVars, extVars, cfgVars, form,
                   save_nearby, selected_save_directory, self_found_files,
                   dpc, doc_generator, output_filename, output_path>>

\* if not os.path.exists(template_path): show_alert(...); return
CheckTemplate ==
    /\ apc = "template"
    /\ IF TemplateFound(templateExists) THEN apc' = "try" /\ UNCHANGED alerts
       ELSE apc' = "returned" /\ alerts' = Append(alerts, AlertTemplate)
    /\ UNCHANGED <<genVars, walkVars, readVars, logVars, extVars, cfgVars, form,
                   save_nearby, selected_save_directory, self_found_files,
                   dpc, doc_generator, output_filename, output_path>>

\* the template file is removed by another program after the handler
\* looked for it and before generate opens it
TemplateRemoved ==
    /\ apc \in {"try", "call"}
    /\ templateExists
    /\ templateExists' = FALSE
    /\ UNCHANGED <<walkVars, readVars, logVars, cfgVars, appVars, extVars, code_files,
                   fs, outDirOk, outFile0, run, prevRun, pc, it, final_doc,
                   temp_file, tempFiles, outFile, result, caught, envFault>>

\* doc_generator = DocumentGenerator(template_path); generate_filename;
\* _determine_output_path; if not output_path: return
Prepare ==
    /\ apc = "try"
    /\ doc_generator' = "DocumentGenerator"
    /\ output_filename' =
          GenerateFilename(form.work_number, form.student_name)
    /\ LET o == DetermineOutputPath(save_nearby, selected_save_directory,
                                    output_filename')
       IN /\ output_path' = o.path
          /\ IF o.alert
             THEN apc' = "returned"
                  /\ alerts' = Append(alerts, AlertNoSaveDirectory)
             ELSE apc' = "call" /\ UNCHANGED alerts
    /\ UNCHANGED <<genVars, walkVars, readVars, logVars, extVars, cfgVars, form,
                   save_nearby, selected_save_directory, self_found_files,
                   dpc>>

\* success = doc_generator.generate(..., code_files=self.found_files, ...)
CallGenerate ==
    /\ apc = "call"
    /\ pc = "idle"
    /\ apc' = "generating"
    /\ pc' = "load"
    /\ code_files' = self_found_files
    /\ UNCHANGED <<walkVars, readVars, logVars, extVars, cfgVars, form, save_nearby,
                   selected_save_directory, self_found_files, dpc, alerts,
                   doc_generator, output_filename, output_path, fs,
                   templateExists, outDirOk, outFile0, run, prevRun, it,
                   final_doc, temp_file, tempFiles, outFile, result, caught,
                   envFault>>

\* if success: _save_current_config(); _show_success_message(output_path)
\* else: show_alert(...)
AfterGenerate ==
    /\ apc = "generating"
    /\ pc = "done"
    /\ apc' = "returned"
    /\ IF SavesConfig(result = "True") THEN Save(ConfigData)
       ELSE UNCHANGED cfgVars
    /\ alerts' = Append(alerts, IF result = "True" THEN AlertSuccess
                                ELSE AlertFailed)
    /\ UNCHANGED <<genVars, walkVars, readVars, logVars, extVars, form, save_nearby,
                   selected_save_directory, self_found_files, dpc,
                   doc_generator, output_filename, output_path>>

(***************************************************************************)
(* Two calls of DocumentGenerator.generate that overlap and are given the  *)
(* same output_path.  Each call has its own frame; the temporary           *)
(* directory and the file at output_path are shared.  final_doc.save opens *)
(* the path for writing, which creates or truncates the file, writes the   *)
(* archive piece by piece through its own handle, and closes it; a piece   *)
(* of the archive stands for one element of the document.                  *)
(***************************************************************************)
Runs == {1, 2}

\* the lists the two calls are given
RaceFiles == {<<PathA>>, <<PathB>>, <<PathA, PathB>>}

\* the code files: a.py readable, b.cpp missing
RaceFs(path) ==
    IF path = PathA THEN FileState("file", GenBytes(PathA)) ELSE MissingFile

\* a name that is always the same
FreshName_Fixed(names) == 1

\* the name NamedTemporaryFile picks: one no file of the directory has
FreshName(names) == CHOOSE n \in 1..(Cardinality(names) + 1) : n \notin names

TempNames(dir) == {f.name : f \in dir}

\* the file of the directory with the name, as a set
TempNamed(dir, name) == {f \in dir : f.name = name}

\* NamedTemporaryFile(delete=False) creates the file with the name
CreateTemp(dir, name, r) ==
    (dir \ TempNamed(dir, name)) \cup {[name |-> name, owner |-> r]}

\* a piece no call has written: the gap a write past the end leaves
Hole == Element("hole", 0, <<>>)

\* a write of one piece at a position of the handle
WriteAt(content, pos, piece) ==
    [i \in 1..(IF pos > Len(content) THEN pos ELSE Len(content)) |->
        IF i = pos THEN piece
        ELSE IF i <= Len(content) THEN content[i] ELSE Hole]

RaceInit ==
    /\ g_files \in [Runs -> RaceFiles]
    /\ g_pc = [r \in Runs |-> "load"]
    /\ g_it = [r \in Runs |-> 0]
    /\ g_doc = [r \in Runs |-> <<>>]
    /\ g_temp = [r \in Runs |-> 0]
    /\ g_tmpdir = {}
    /\ g_out = NoFile
    /\ g_off = [r \in Runs |-> 0]
    /\ g_result = [r \in Runs |-> "none"]
    /\ g_saved = <<>>

RaceParked ==
    /\ g_files = [r \in Runs |-> <<>>]
    /\ g_pc = [r \in Runs |-> "parked"]
    /\ g_it = [r \in Runs |-> 0]
    /\ g_doc = [r \in Runs |-> <<>>]
    /\ g_temp = [r \in Runs |-> 0]
    /\ g_tmpdir = {}
    /\ g_out = NoFile
    /\ g_off = [r \in Runs |-> 0]
    /\ g_result = [r \in Runs |-> "none"]
    /\ g_saved = <<>>

RaceOthers ==
    <<genVars, walkVars, readVars, logVars, cfgVars, appVars, threadVars,
      uiVars>>

\* the call moves on to the stage
RaceGoto(r, stage) ==
    /\ g_pc' = [g_pc EXCEPT ![r] = stage]
    /\ UNCHANGED g_result

\* except Exception as e: ... return False
RaceExcept(r) ==
    /\ g_pc' = [g_pc EXCEPT ![r] = "done"]
    /\ g_result' = [g_result EXCEPT ![r] = "False"]

\* doc = DocxTemplate(self.template_path); doc.render(context)
RaceRender(r) ==
    /\ g_pc[r] = "load"
    /\ \/ RaceGoto(r, "mktemp")
       \/ RaceExcept(r)
    /\ UNCHANGED <<RaceOthers, g_files, g_it, g_doc, g_temp, g_tmpdir, g_out,
                   g_off, g_saved>>

\* with tempfile.NamedTemporaryFile(delete=False, suffix=".docx") as tmp
RaceMakeTemp(r) ==
    /\ g_pc[r] = "mktemp"
    /\ \/ /\ LET name == FreshName(TempNames(g_tmpdir)) IN
             /\ g_temp' = [g_temp EXCEPT ![r] = name]
             /\ g_tmpdir' = CreateTemp(g_tmpdir, name, r)
          /\ RaceGoto(r, "open")
       \/ /\ RaceExcept(r)
          /\ UNCHANGED <<g_temp, g_tmpdir>>
    /\ UNCHANGED <<RaceOthers, g_files, g_it, g_doc, g_out, g_off, g_saved>>

\* doc.save(temp_file); final_doc = Document(temp_file)
RaceOpenDocument(r) ==
    /\ g_pc[r] = "open"
    /\ \/ /\ TempNamed(g_tmpdir, g_temp[r]) # {}
          /\ g_doc' = [g_doc EXCEPT ![r] = <<Cover>>]
          /\ RaceGoto(r, "loop")
       \/ /\ RaceExcept(r)
          /\ UNCHANGED g_doc
    /\ UNCHANGED <<RaceOthers, g_files, g_it, g_temp, g_tmpdir, g_out, g_off,
                   g_saved>>

\* one iteration of: for idx, file_path in enumerate(code_files, 1)
RaceAppendSection(r) ==
    /\ g_pc[r] = "loop"
    /\ ~LoopExhausted(g_it[r], Enumerate(g_files[r]))
    /\ LET item == Enumerate(g_files[r])[g_it[r] + 1]
           idx == item[1]
           file_path == item[2]
           d1 == IF PageBreakBefore(idx) THEN AddPageBreak(g_doc[r])
                 ELSE g_doc[r]
           d2 == AddTaskHeading(d1, idx)
           c == ReadCodeFile(RaceFs(file_path), file_path)
       IN \/ /\ g_doc' = [g_doc EXCEPT ![r] = AddCodeContent(d2, c.value)]
             /\ g_it' = [g_it EXCEPT ![r] = g_it[r] + 1]
             /\ UNCHANGED <<g_pc, g_result>>
          \/ /\ RaceExcept(r)
             /\ UNCHANGED <<g_doc, g_it>>
    /\ UNCHANGED <<RaceOthers, g_files, g_temp, g_tmpdir, g_out, g_off,
                   g_saved>>

\* final_doc.save(output_path): open(output_path, "w+b")
RaceSaveOpen(r) ==
    /\ g_pc[r] = "loop"
    /\ LoopExhausted(g_it[r], Enumerate(g_files[r]))
    /\ \/ /\ g_out' = [state |-> "written", doc |-> <<>>]
          /\ g_off' = [g_off EXCEPT ![r] = 0]
          /\ RaceGoto(r, "write")
       \/ /\ RaceExcept(r)
          /\ UNCHANGED <<g_out, g_off>>
    /\ UNCHANGED <<RaceOthers, g_files, g_it, g_doc, g_temp, g_tmpdir,
                   g_saved>>

\* final_doc.save(output_path): one piece written through the handle
RaceSaveWrite(r) ==
    /\ g_pc[r] = "write"
    /\ g_off[r] < Len(g_doc[r])
    /\ \/ /\ g_out' = [g_out EXCEPT
                          !.doc = WriteAt(@, g_off[r] + 1,
                                          g_doc[r][g_off[r] + 1])]
          /\ g_off' = [g_off EXCEPT ![r] = g_off[r] + 1]
          /\ UNCHANGED <<g_pc, g_result>>
       \/ /\ RaceExcept(r)
          /\ UNCHANGED <<g_out, g_off>>
    /\ UNCHANGED <<RaceOthers, g_files, g_it, g_doc, g_temp, g_tmpdir,
                   g_saved>>

\* final_doc.save(output_path) returns: the handle is closed
RaceSaveClose(r) ==
    /\ g_pc[r] = "write"
    /\ g_off[r] = Len(g_doc[r])
    /\ g_saved' = Append(g_saved, r)
    /\ RaceGoto(r, "cleanup")
    /\ UNCHANGED <<RaceOthers, g_files, g_it, g_doc, g_temp, g_tmpdir, g_out,
                   g_off>>

\* if os.path.exists(temp_file): os.remove(temp_file) ... return True
RaceCleanup(r) ==
    /\ g_pc[r] = "cleanup"
    /\ \/ /\ g_tmpdir' = g_tmpdir \ TempNamed(g_tmpdir, g_temp[r])
          /\ g_pc' = [g_pc EXCEPT ![r] = "done"]
          /\ g_result' = [g_result EXCEPT ![r] = "True"]
       \/ /\ TempNamed(g_tmpdir, g_temp[r]) # {}
          /\ RaceExcept(r)
          /\ UNCHANGED g_tmpdir
    /\ UNCHANGED <<RaceOthers, g_files, g_it, g_doc, g_temp, g_out, g_off,
                   g_saved>>

(***************************************************************************)
(* Two threads that call the AppLogger singleton at the same time.  The    *)
(* attributes _enabled, _log_path, _initialized and the handler list of    *)
(* the logging.Logger are shared; configure and _setup_logger take no      *)
(* lock, so a thread can be between any two of their statements when the   *)
(* other runs.  logging itself appends a handler, and writes a record to   *)
(* a handler, under its own locks: each is one step.                       *)
(***************************************************************************)
Threads == {1, 2}

LogLevels == {"DEBUG", "INFO"}

ThreadCalls ==
    {[op |-> "configure", enabled |-> en, dir |-> d, level |-> "INFO"] :
        en \in BOOLEAN, d \in LogDirs}
    \cup {[op |-> "log", enabled |-> TRUE, dir |-> "logs", level |-> l] :
             l \in LogLevels}

NoThreadCall == [op |-> "none", enabled |-> TRUE, dir |-> "logs",
                 level |-> "INFO"]

\* the five self.info lines that open a session
SessionLines == 5

\* the logger as __init__ left it, or as a configure that succeeded left it
ThreadInit ==
    /\ log_env \in LogEnvs
    /\ log_enabled = TRUE
    /\ log_path = "logs"
    /\ \/ log_initialized = FALSE /\ handlers = <<>>
       \/ /\ log_env["logs"] = "ok"
          /\ log_initialized = TRUE
          /\ handlers = <<FileHandler("logs"), ConsoleHandler>>
    /\ log_configures = 0
    /\ log_last = NoCall
    /\ t_pc = [t \in Threads |-> "idle"]
    /\ t_call = [t \in Threads |-> NoThreadCall]
    /\ t_file = [t \in Threads |-> "logs"]
    /\ t_n = [t \in Threads |-> 0]
    /\ t_written = [t \in Threads |-> <<>>]

ThreadsParked ==
    /\ t_pc = [t \in Threads |-> "parked"]
    /\ t_call = [t \in Threads |-> NoThreadCall]
    /\ t_file = [t \in Threads |-> "logs"]
    /\ t_n = [t \in Threads |-> 0]
    /\ t_written = [t \in Threads |-> <<>>]

ThreadOthers ==
    <<genVars, walkVars, readVars, cfgVars, appVars, raceVars, uiVars,
      log_env, log_configures, log_last>>

ThreadGoto(t, where) == t_pc' = [t_pc EXCEPT ![t] = where]

\* the thread calls configure(enabled, log_path) or a logging method
ThreadBegin(t) ==
    /\ t_pc[t] = "idle"
    /\ \E c \in ThreadCalls :
          /\ t_call' = [t_call EXCEPT ![t] = c]
          /\ ThreadGoto(t, IF c.op = "configure" THEN "c_enabled"
                            ELSE "l_test")
    /\ UNCHANGED <<ThreadOthers, log_enabled, log_path, log_initialized,
                   handlers, t_file, t_n, t_written>>

\* self._enabled = enabled
ConfigureEnabled(t) ==
    /\ t_pc[t] = "c_enabled"
    /\ log_enabled' = t_call[t].enabled
    /\ ThreadGoto(t, "c_path")
    /\ UNCHANGED <<ThreadOthers, log_path, log_initialized, handlers, t_call,
                   t_file, t_n, t_written>>

\* self._log_path = log_path
ConfigurePath(t) ==
    /\ t_pc[t] = "c_path"
    /\ log_path' = t_call[t].dir
    /\ ThreadGoto(t, "c_test")
    /\ UNCHANGED <<ThreadOthers, log_enabled, log_initialized, handlers,
                   t_call, t_file, t_n, t_written>>

\* if self._initialized:
ConfigureTest(t) ==
    /\ t_pc[t] = "c_test"
    /\ ThreadGoto(t, IF log_initialized THEN "c_clear" ELSE "c_branch")
    /\ UNCHANGED <<ThreadOthers, log_enabled, log_path, log_initialized,
                   handlers, t_call, t_file, t_n, t_written>>

\* self._logger.handlers.clear()
ConfigureClear(t) ==
    /\ t_pc[t] = "c_clear"
    /\ handlers' = ClearedHandlers(handlers)
    /\ ThreadGoto(t, "c_reset")
    /\ UNCHANGED <<ThreadOthers, log_enabled, log_path, log_initialized,
                   t_call, t_file, t_n, t_written>>

\* self._initialized = False
ConfigureReset(t) ==
    /\ t_pc[t] = "c_reset"
    /\ log_initialized' = FALSE
    /\ ThreadGoto(t, "c_branch")
    /\ UNCHANGED <<ThreadOthers, log_enabled, log_path, handlers, t_call,
                   t_file, t_n, t_written>>

\* if self._enabled: self._setup_logger()
ConfigureBranch(t) ==
    /\ t_pc[t] = "c_branch"
    /\ ThreadGoto(t, IF log_enabled THEN "s_test" ELSE "done")
    /\ UNCHANGED <<ThreadOthers, log_enabled, log_path, log_initialized,
                   handlers, t_call, t_file, t_n, t_written>>

\* _setup_logger: if self._initialized: return
SetupTest(t) ==
    /\ t_pc[t] = "s_test"
    /\ ThreadGoto(t, IF log_initialized THEN "done" ELSE "s_makedirs")
    /\ UNCHANGED <<ThreadOthers, log_enabled, log_path, log_initialized,
                   handlers, t_call, t_file, t_n, t_written>>

\* os.makedirs(self._log_path, exist_ok=True), then log_filename
SetupMakedirs(t) ==
    /\ t_pc[t] = "s_makedirs"
    /\ IF log_env[log_path] = "nodir"
       THEN /\ log_enabled' = FALSE
            /\ ThreadGoto(t, "done")
            /\ UNCHANGED t_file
       ELSE /\ t_file' = [t_file EXCEPT ![t] = log_path]
            /\ ThreadGoto(t, "s_file")
            /\ UNCHANGED log_enabled
    /\ UNCHANGED <<ThreadOthers, log_path, log_initialized, handlers, t_call,
                   t_n, t_written>>

\* file_handler = RotatingFileHandler(log_filename, ...);
\* self._logger.addHandler(file_handler)
SetupFileHandler(t) ==
    /\ t_pc[t] = "s_file"
    /\ IF log_env[t_file[t]] = "nofile"
       THEN /\ log_enabled' = FALSE
            /\ ThreadGoto(t, "done")
            /\ UNCHANGED handlers
       ELSE /\ handlers' = Append(handlers, FileHandler(t_file[t]))
            /\ ThreadGoto(t, "s_console")
            /\ UNCHANGED log_enabled
    /\ UNCHANGED <<ThreadOthers, log_path, log_initialized, t_call, t_file,
                   t_n, t_written>>

\* console_handler = logging.StreamHandler();
\* self._logger.addHandler(console_handler)
SetupConsoleHandler(t) ==
    /\ t_pc[t] = "s_console"
    /\ handlers' = Append(handlers, ConsoleHandler)
    /\ ThreadGoto(t, "s_init")
    /\ UNCHANGED <<ThreadOthers, log_enabled, log_path, log_initialized,
                   t_call, t_file, t_n, t_written>>

\* self._initialized = True
SetupInitialized(t) ==
    /\ t_pc[t] = "s_init"
    /\ log_initialized' = TRUE
    /\ ThreadGoto(t, "s_info")
    /\ UNCHANGED <<ThreadOthers, log_enabled, log_path, handlers, t_call,
                   t_file, t_n, t_written>>

\* one of the self.info(...) lines of _setup_logger
SetupInfo(t) ==
    /\ t_pc[t] = "s_info"
    /\ t_written' = [t_written EXCEPT
                        ![t] = @ \o Log(log_enabled, log_initialized,
                                        handlers, "INFO")]
    /\ t_n' = [t_n EXCEPT ![t] = @ + 1]
    /\ ThreadGoto(t, IF t_n[t] + 1 = SessionLines THEN "done" ELSE "s_info")
    /\ UNCHANGED <<ThreadOthers, log_enabled, log_path, log_initialized,
                   handlers, t_call, t_file>>

\* _log: if self._enabled and self._initialized:
LogTest(t) ==
    /\ t_pc[t] = "l_test"
    /\ ThreadGoto(t, IF log_enabled /\ log_initialized THEN "l_emit"
                     ELSE "done")
    /\ UNCHANGED <<ThreadOthers, log_enabled, log_path, log_initialized,
                   handlers, t_call, t_file, t_n, t_written>>

\* self._logger.log(level, message)
LogEmit(t) ==
    /\ t_pc[t] = "l_emit"
    /\ t_written' = [t_written EXCEPT
                        ![t] = Append(@, Emit(handlers, t_call[t].level))]
    /\ ThreadGoto(t, "done")
    /\ UNCHANGED <<ThreadOthers, log_enabled, log_path, log_initialized,
                   handlers, t_call, t_file, t_n>>

(***************************************************************************)
(* The form of MireaReportGenerator (ui/app.py): the handlers of the text  *)
(* fields and of the directory with the code files.  A handler runs to its *)
(* end before the next one starts.  The directory tree is the one of the   *)
(* application above: a.py and n.txt in D, b.cpp in D/s, nothing in D/t    *)
(* and D/s/u; x does not exist.  The text of the directory field is a      *)
(* sequence of names, Blank standing for white space.                      *)
(***************************************************************************)
RECURSIVE LStrip(_, _)
LStrip(str, blank) ==
    IF str # <<>> /\ Head(str) = blank THEN LStrip(Tail(str), blank) ELSE str

RECURSIVE RStrip(_, _)
RStrip(str, blank) ==
    IF str # <<>> /\ Last(str) = blank
    THEN RStrip(SubSeq(str, 1, Len(str) - 1), blank)
    ELSE str

\* str.strip()
Strip(str, blank) == RStrip(LStrip(str, blank), blank)

\* a test of the fields that takes white space for a value
ValidateForm_NoStrip(f, files) ==
    /\ f.group # <<>>
    /\ f.student_name # <<>>
    /\ f.teacher_name # <<>>
    /\ f.work_number # <<>>
    /\ files # <<>>

\* validate_form: is_valid
ValidateForm(f, files) ==
    /\ f.group # <<>> /\ Strip(f.group, " ") # <<>>
    /\ f.student_name # <<>> /\ Strip(f.student_name, " ") # <<>>
    /\ f.teacher_name # <<>> /\ Strip(f.teacher_name, " ") # <<>>
    /\ f.work_number # <<>> /\ Strip(f.work_number, " ") # <<>>
    /\ files # <<>>

Blank == <<" ">>

NameX == <<"x">>

UiListing ==
    [d \in Dirs |-> IF d = DirRoot THEN <<NameAPy, NameNotes>>
                    ELSE IF d = DirS THEN <<NameBCpp>> ELSE <<>>]

\* os.path.exists(path)
PathExists(path) == path \in Dirs \cup {PathA, PathB, PathN}

\* os.path.isdir(path)
IsDir(path) == path \in Dirs

\* FileManager.find_code_files(directory) on the tree: the files of the
\* directory, then those of its subdirectories
RECURSIVE FindCodeFiles(_)
FindCodeFiles(directory) ==
    LET subs == CHOOSE q \in Perms(Children(directory)) : TRUE IN
    ScanFiles(<<>>, directory, UiListing[directory])
        \o Flatten([i \in 1..Len(subs) |-> FindCodeFiles(subs[i])])

\* an invalid path that leaves the list of files as it was
HandleInvalidDirectoryPath_KeepsFiles(files) ==
    [selected_directory |-> <<>>, found_files |-> files]

\* _handle_invalid_directory_path: self.selected_directory = None;
\* self.found_files = []
HandleInvalidDirectoryPath(files) ==
    [selected_directory |-> <<>>, found_files |-> <<>>]

\* the values typed into a text field
FieldValues == {<<>>, <<" ">>, <<"7">>, <<" ", "7">>}

FieldNames == {"group", "student_name", "teacher_name", "work_number"}

\* the texts typed into the directory field
TypedPaths ==
    {<<>>, <<Blank>>, DirRoot, <<Blank>> \o DirS \o <<Blank>>, DirT, PathA,
     <<NameX>>}

\* the paths the directory dialog returns: None when it is cancelled
DialogPaths == {<<>>, DirRoot, DirS, DirT}

UiEvent(event, path, before) ==
    [event |-> event, path |-> path, before |-> before]

\* the window is built: the fields hold the stored values, no directory is
\* selected, validate_form has run
UiInit ==
    /\ form \in [FieldNames -> FieldValues]
    /\ save_nearby = TRUE
    /\ selected_save_directory = <<>>
    /\ self_found_files = <<>>
    /\ apc = "idle"
    /\ dpc = "idle"
    /\ alerts = <<>>
    /\ doc_generator = "None"
    /\ output_filename = <<>>
    /\ output_path = <<>>
    /\ selected_directory = <<>>
    /\ generate_btn_disabled = ~ValidateForm(form, self_found_files)
    /\ ui_last = UiEvent("build", <<>>, <<>>)

UiParked ==
    /\ selected_directory = <<>>
    /\ generate_btn_disabled = TRUE
    /\ ui_last = UiEvent("none", <<>>, <<>>)

UiOthers ==
    <<genVars, walkVars, readVars, logVars, cfgVars, raceVars, threadVars,
      save_nearby, selected_save_directory, apc, dpc, alerts, doc_generator,
      output_filename, output_path>>

\* on_change of a text field: validate_form
OnFieldChange ==
    /\ \E k \in FieldNames, v \in FieldValues :
          form' = [form EXCEPT ![k] = v]
    /\ generate_btn_disabled' = ~ValidateForm(form', self_found_files)
    /\ ui_last' = UiEvent("edit", <<>>, selected_directory)
    /\ UNCHANGED <<UiOthers, self_found_files, selected_directory>>

\* self.selected_directory = path; self.find_code_files(), which ends
\* with validate_form
SelectDirectory(path) ==
    /\ selected_directory' = path
    /\ self_found_files' = FindCodeFiles(path)
    /\ generate_btn_disabled' = ~ValidateForm(form, self_found_files')

\* on_directory_selected(e)
OnDirectorySelected ==
    /\ \E path \in DialogPaths :
          /\ IF path # <<>> THEN SelectDirectory(path)
             ELSE UNCHANGED <<selected_directory, self_found_files,
                              generate_btn_disabled>>
          /\ ui_last' = UiEvent("dialog", path, selected_directory)
    /\ UNCHANGED <<UiOthers, form>>

\* on_directory_manual_input
OnDirectoryManualInput ==
    /\ \E text \in TypedPaths :
          LET path == Strip(text, Blank) IN
          /\ IF path = <<>>
             THEN UNCHANGED <<selected_directory, self_found_files,
                              generate_btn_disabled>>
             ELSE IF ~PathExists(path) \/ ~IsDir(path)
             THEN LET r == HandleInvalidDirectoryPath(self_found_files) IN
                  /\ selected_directory' = r.selected_directory
                  /\ self_found_files' = r.found_files
                  /\ generate_btn_disabled' =
                        ~ValidateForm(form, self_found_files')
             ELSE SelectDirectory(path)
          /\ ui_last' = UiEvent("manual", path, selected_directory)
    /\ UNCHANGED <<UiOthers, form>>

ExtParked == RaceParked /\ ThreadsParked /\ UiParked

(***************************************************************************)
(* Specifications.                                                         *)
(***************************************************************************)
Init == GenInit /\ WalkParked /\ ReadParked /\ LogParked /\ CfgParked /\ AppParked
    /\ ExtParked

Next ==
    \/ LoadTemplate
    \/ Render
    \/ MakeTemp
    \/ SaveTemp
    \/ OpenDocument
    \/ AppendSection
    \/ SaveFinal
    \/ Cleanup

Spec == Init /\ [][Next]_vars

\* two calls of generate, one after the other, with the same arguments
InitTwice == GenInit /\ WalkParked /\ ReadParked /\ LogParked /\ CfgParked /\ AppParked
    /\ ExtParked

NextTwice ==
    \/ Next
    \/ Rerun

SpecTwice == InitTwice /\ [][NextTwice]_vars

InitWalk == GenParked /\ WalkInit /\ ReadParked /\ LogParked /\ CfgParked /\ AppParked
    /\ ExtParked

NextWalk ==
    \/ CreateFile
    \/ StartWalk
    \/ WalkStep
    \/ WalkRaise
    \/ WalkReturn

SpecWalk == InitWalk /\ [][NextWalk]_vars

InitRead == GenParked /\ WalkParked /\ ReadInit /\ LogParked /\ CfgParked /\ AppParked
    /\ ExtParked

NextRead ==
    \/ CallReadFile
    \/ CallReadCodeFile

SpecRead == InitRead /\ [][NextRead]_vars

InitLog == GenParked /\ WalkParked /\ ReadParked /\ LogInit /\ CfgParked /\ AppParked
    /\ ExtParked

NextLog ==
    \/ Construct
    \/ Configure
    \/ LogMethod

SpecLog == InitLog /\ [][NextLog]_vars

InitCfg == GenParked /\ WalkParked /\ ReadParked /\ LogParked /\ CfgInit /\ AppParked
    /\ ExtParked

NextCfg ==
    \/ ConfigManagerInit
    \/ CallSave
    \/ CallUpdate

SpecCfg == InitCfg /\ [][NextCfg]_vars

\* the application: a discovery and one run of generate_document
InitApp ==
    GenIdle /\ WalkOfApp /\ ReadParked /\ LogParked /\ CfgOfApp /\ AppInit
    /\ ExtParked

NextApp ==
    \/ StartWalk
    \/ WalkStep
    \/ WalkRaise
    \/ WalkReturn
    \/ StoreFound
    \/ ChooseDirectory
    \/ ValidateInputs
    \/ CheckTemplate
    \/ TemplateRemoved
    \/ Prepare
    \/ CallGenerate
    \/ Next
    \/ AfterGenerate

SpecApp == InitApp /\ [][NextApp]_vars

\* the application from its start on a stored config
InitStartup ==
    GenIdle /\ WalkOfApp /\ ReadParked /\ LogParked /\ StartupInit
    /\ ExtParked

SpecStartup == InitStartup /\ [][NextApp]_vars

\* the file name and the output path of a run
InitName ==
    GenParked /\ WalkParked /\ ReadParked /\ LogParked /\ CfgParked /\ NameInit
    /\ ExtParked

NextName == Prepare

SpecName == InitName /\ [][NextName]_vars

\* two calls of generate that overlap
InitRace ==
    GenParked /\ WalkParked /\ ReadParked /\ LogParked /\ CfgParked /\ AppParked
    /\ RaceInit /\ ThreadsParked /\ UiParked

NextRace ==
    \E r \in Runs :
        \/ RaceRender(r)
        \/ RaceMakeTemp(r)
        \/ RaceOpenDocument(r)
        \/ RaceAppendSection(r)
        \/ RaceSaveOpen(r)
        \/ RaceSaveWrite(r)
        \/ RaceSaveClose(r)
        \/ RaceCleanup(r)

SpecRace == InitRace /\ [][NextRace]_vars

\* two threads, each making one call on the AppLogger
InitThreads ==
    GenParked /\ WalkParked /\ ReadParked /\ CfgParked /\ AppParked
    /\ RaceParked /\ ThreadInit /\ UiParked

NextThreads ==
    \E t \in Threads :
        \/ ThreadBegin(t)
        \/ ConfigureEnabled(t)
        \/ ConfigurePath(t)
        \/ ConfigureTest(t)
        \/ ConfigureClear(t)
        \/ ConfigureReset(t)
        \/ ConfigureBranch(t)
        \/ SetupTest(t)
        \/ SetupMakedirs(t)
        \/ SetupFileHandler(t)
        \/ SetupConsoleHandler(t)
        \/ SetupInitialized(t)
        \/ SetupInfo(t)
        \/ LogTest(t)
        \/ LogEmit(t)

SpecThreads == InitThreads /\ [][NextThreads]_vars

\* the handlers of the form, one after the other
InitUi ==
    GenParked /\ WalkParked /\ ReadParked /\ LogParked /\ CfgParked
    /\ RaceParked /\ ThreadsParked /\ UiInit

NextUi ==
    \/ OnFieldChange
    \/ OnDirectorySelected
    \/ OnDirectoryManualInput

SpecUi == InitUi /\ [][NextUi]_vars

(***************************************************************************)
(* Properties of DocumentGenerator.generate (specification Spec).          *)
(***************************************************************************)
Returned == pc = "done"

\* generate left the loop over code_files and called final_doc.save
LoopFinished ==
    \/ pc = "cleanup"
    \/ pc = "done" /\ caught \in {"none", "save", "remove"}

Bodies(doc) ==
    LET codes == SelectSeq(doc, LAMBDA e : e.kind = "code")
    IN [i \in 1..Len(codes) |-> codes[i].text]

Headings(doc) ==
    LET hs == SelectSeq(doc, LAMBDA e : e.kind = "heading")
    IN [i \in 1..Len(hs) |-> hs[i].num]

Unreadable(path) == fs[path].kind # "file"

IsPlaceholderFor(text, path) ==
    /\ Len(text) >= Len(Last(path)) + 2
    /\ text[1] = "[Oshibka chteniya faila: "
    /\ SubSeq(text, 2, Len(Last(path)) + 1) = Last(path)
    /\ Last(text) = "]"

\* C1: after generate returns, True or False, the temporary rendered
\* document it created no longer exists in the temp directory.
C1_TempRemovedAfterGenerate ==
    Returned => temp_file \notin tempFiles

\* C2: a run is atomic: it returns True with the fully assembled document
\* at output_path, or False with nothing written by the run at output_path.
C2_AtomicRun ==
    Returned =>
        \/ /\ result = "True"
           /\ outFile = [state |-> "written", doc |-> final_doc]
           /\ Len(Bodies(final_doc)) = Len(code_files)
        \/ /\ result = "False"
           /\ outFile.state \in {"absent", "old"}

C4_SectionLayout ==
    LoopFinished =>
        LET N == Len(code_files) IN
        /\ Len(final_doc) = 1 + 2 * N + (IF N > 1 THEN N - 1 ELSE 0)
        /\ final_doc[1] = Cover
        /\ Headings(final_doc) = [i \in 1..N |-> i]
        /\ \A j \in 2..Len(final_doc) :
              /\ final_doc[j].kind # "cover"
              /\ final_doc[j].kind = "heading" =>
                    /\ j < Len(final_doc)
                    /\ final_doc[j + 1].kind = "code"
                    /\ final_doc[j].num = 1 => final_doc[j - 1].kind = "cover"
                    /\ final_doc[j].num > 1 =>
                          final_doc[j - 1].kind = "page_break"
              /\ final_doc[j].kind = "page_break" =>
                    /\ j < Len(final_doc)
                    /\ final_doc[j + 1].kind = "heading"

\* a finished document of three sections
C4_Witness ==
    /\ LoopFinished
    /\ Len(code_files) = 3
    /\ Len(final_doc) = 9

\* C5: the assembler neither re-sorts, deduplicates nor filters: the body
\* of the i-th section is the content or placeholder of the i-th path of
\* code_files, and the finished document has one body per list entry.
C5_BodiesFollowInput ==
    /\ \A i \in 1..Len(Bodies(final_doc)) :
          /\ i <= Len(code_files)
          /\ Bodies(final_doc)[i]
                = ReadCodeFile(fs[code_files[i]], code_files[i]).value
    /\ LoopFinished => Len(Bodies(final_doc)) = Len(code_files)

\* a finished run over a list that is unsorted, repeats a path and holds a
\* path outside the allow-list
C5_Witness ==
    /\ LoopFinished
    /\ result = "True"
    /\ code_files = <<PathN, PathA, PathN>>
    /\ ~Unreadable(PathN)

\* C12 as stated, only a document written in full counted as a file and
\* the runs that fail to remove their temporary file left aside: when the
\* parent directory of output_path does not exist or is not writable,
\* generate returns False and leaves no file at output_path.
C12_NoFileWithoutDirectory ==
    (Returned /\ ~outDirOk /\ caught # "remove") =>
        /\ result = "False"
        /\ outFile.state # "written"

\* C12 amended: when no file can be created in the parent directory of
\* output_path and no file is at output_path before the run, generate
\* returns False and no file exists at output_path afterwards.
C12_NoFileCreatedWithoutDirectory ==
    (~outDirOk /\ outFile0 = NoFile) =>
        /\ outFile = NoFile
        /\ Returned => result = "False"

\* a run over two files got as far as the final save and failed there
C12_Witness ==
    /\ Returned
    /\ ~outDirOk
    /\ outFile0 = NoFile
    /\ caught = "save"
    /\ Len(code_files) = 2
    /\ Len(Bodies(final_doc)) = 2

\* C13: a successful generate replaces a file already at output_path: the
\* file is then the newly assembled document and nothing else, no other
\* file is left by the run, and no exception was raised on the way.
C13_SilentOverwrite ==
    (Returned /\ result = "True" /\ outFile0 = OldFile) =>
        /\ outFile.state = "written"
        /\ outFile.doc = final_doc
        /\ \A i \in 1..Len(outFile.doc) : outFile.doc[i].text # <<"old">>
        /\ tempFiles = {}
        /\ caught = "none"

\* a run over one file returned True where a document had been
C13_Witness ==
    /\ Returned
    /\ result = "True"
    /\ outFile0 = OldFile
    /\ Len(code_files) = 1
    /\ outFile.doc # OldFile.doc

\* C14: a second generate with the same arguments is not changed by what
\* the first left (a temporary file, a document or a part of one at
\* output_path): it returns True unless a stage of its own fails, what it
\* writes is the document it assembled, one section per file in the order
\* of the list, and when both runs return True the two documents have the
\* same sections in the same order.
C14_SecondRunSameSections ==
    (run = 2 /\ Returned) =>
        /\ envFault = "none" => result = "True"
        /\ result = "True" =>
              /\ outFile.doc = final_doc
              /\ Headings(outFile.doc) = [i \in 1..Len(code_files) |-> i]
              /\ Len(Bodies(outFile.doc)) = Len(code_files)
        /\ (result = "True" /\ prevRun.result = "True") =>
              /\ Headings(outFile.doc) = Headings(prevRun.out.doc)
              /\ Bodies(outFile.doc) = Bodies(prevRun.out.doc)

\* both runs over two files returned True, the second over the document
\* of the first
C14_Witness ==
    /\ run = 2
    /\ Returned
    /\ result = "True"
    /\ prevRun.result = "True"
    /\ prevRun.out.state = "written"
    /\ Len(code_files) = 2

(***************************************************************************)
(* Properties of FileManager.find_code_files (specification SpecWalk).     *)
(***************************************************************************)
AllowList ==
    { <<".", "p", "y">>, <<".", "c", "p", "p">>, <<".", "c">>, <<".", "h">>,
      <<".", "h", "p", "p">>, <<".", "j", "a", "v", "a">>, <<".", "j", "s">>,
      <<".", "k", "t">>, <<".", "g", "o">>, <<".", "r", "s">> }

HasAllowedSuffix(name) ==
    \E k \in 1..Len(name) : SubSeq(name, k, Len(name)) \in AllowList

Prefixes(d) == {SubSeq(d, 1, k) : k \in 1..Len(d)}

\* the directories of D's subtree: D and what lies below it, without
\* what lies behind a symbolic link
SubtreeDirs ==
    {d \in Dirs : \A a \in Prefixes(d) : dirKind[a] \in {"dir", "denied"}}

\* the directories the walk can list: every directory on the way is one
\* that can be listed
WalkedDirs ==
    {d \in Dirs : \A a \in Prefixes(d) : dirKind[a] = "dir"}

EligibleIn(ds) ==
    UNION {{PathJoin(d, n) : n \in {m \in Range(listing[d]) :
                                       HasAllowedSuffix(m)}} : d \in ds}

NoDuplicates(s) == \A i, j \in 1..Len(s) : i # j => s[i] # s[j]

WalkCompleted == wpc = "done" /\ ~w_fault

C7_DiscoveryErrorSurfaced ==
    wpc = "done" =>
        /\ dirKind[DirRoot] \in {"missing", "notdir"} => w_ret.raised
        /\ w_caught => w_ret.raised

RECURSIVE EligibleSeq(_, _)
EligibleSeq(d, files) ==
    IF files = <<>> THEN <<>>
    ELSE (IF HasAllowedSuffix(Head(files)) THEN <<PathJoin(d, Head(files))>>
          ELSE <<>>) \o EligibleSeq(d, Tail(files))

\* C8: an error listing one subdirectory skips only that subtree: the walk
\* is not aborted, it visits every directory it can list, parents first,
\* and the list returned holds their eligible files in the order visited.
C8_ListingErrorSkipsSubtree ==
    /\ found_files
          = Flatten([i \in 1..Len(yielded) |->
                        EligibleSeq(yielded[i], listing[yielded[i]])])
    /\ \A i \in 1..Len(yielded) :
          Len(yielded[i]) > 1 =>
              \E j \in 1..(i - 1) : yielded[j] = Parent(yielded[i])
    /\ WalkCompleted =>
          /\ ~w_caught
          /\ Range(yielded) = WalkedDirs
          /\ NoDuplicates(yielded)
          /\ w_ret.value = found_files

\* s cannot be listed and holds a.py; the walk returned b.cpp of t
C8_Witness ==
    /\ WalkCompleted
    /\ dirKind[DirS] = "denied"
    /\ listing[DirS] = <<NameAPy>>
    /\ yielded = <<DirRoot, DirT>>
    /\ w_ret.value = <<PathJoin(DirT, NameBCpp)>>

(***************************************************************************)
(* Properties of the safe readers (specification SpecRead).                *)
(***************************************************************************)
Reads == {rd_fm, rd_dg}

\* "[Ошибка чтения файла: <base name>\nПричина: <reason>]"
Placeholder(path, st) ==
    <<"[Oshibka chteniya faila: ">> \o Last(path) \o <<"\nPrichina: ">>
        \o StrError(st, path) \o <<"]">>

\* C9: the safe readers never raise: for a missing file, a directory, a
\* file that cannot be opened and a file of undecodable bytes they return
\* a string, and on a failure the bracketed placeholder with the base name
\* of the file and the reason of the failure.
C9_ReaderNeverRaises ==
    \A r \in Reads :
        r.called =>
            /\ ~r.raised
            /\ rd_st.kind # "file" => r.value = Placeholder(rd_path, rd_st)
            /\ rd_st.kind = "file" => Len(r.value) <= Len(rd_st.bytes)

\* both readers returned the placeholder for a path below a directory
\* that cannot be opened
C9_Witness ==
    /\ rd_fm.called
    /\ rd_dg.called
    /\ rd_st.kind = "denied"
    /\ Len(rd_path) > 1
    /\ rd_fm.value = rd_dg.value

RECURSIVE ValidUtf8(_)
ValidUtf8(bytes) ==
    \/ bytes = <<>>
    \/ Head(bytes) < 128 /\ ValidUtf8(Tail(bytes))
    \/ /\ Len(bytes) >= 2
       /\ Head(bytes) \in 194..223
       /\ bytes[2] \in 128..191
       /\ ValidUtf8(Tail(Tail(bytes)))

CharAt(bytes) ==
    CASE Head(bytes) = 65 -> "A"
      [] Head(bytes) = 10 -> "\n"
      [] Head(bytes) = 13 -> "\r"
      [] OTHER            -> "U+00E9"

\* the characters of a valid file, as they stand
RECURSIVE ExactContent(_)
ExactContent(bytes) ==
    IF bytes = <<>> THEN <<>>
    ELSE IF Head(bytes) < 128
         THEN <<CharAt(bytes)>> \o ExactContent(Tail(bytes))
         ELSE <<CharAt(bytes)>> \o ExactContent(Tail(Tail(bytes)))

\* the characters of a valid file with \r\n and \r read as \n
RECURSIVE ContentWithLf(_)
ContentWithLf(bytes) ==
    IF bytes = <<>> THEN <<>>
    ELSE IF Head(bytes) = 13 /\ Len(bytes) >= 2 /\ bytes[2] = 10
         THEN <<"\n">> \o ContentWithLf(Tail(Tail(bytes)))
         ELSE IF Head(bytes) = 13
              THEN <<"\n">> \o ContentWithLf(Tail(bytes))
              ELSE IF Head(bytes) < 128
                   THEN <<CharAt(bytes)>> \o ContentWithLf(Tail(bytes))
                   ELSE <<CharAt(bytes)>> \o ContentWithLf(Tail(Tail(bytes)))

ReadValidFile(r) == r.called /\ rd_st.kind = "file" /\ ValidUtf8(rd_st.bytes)

\* C10 as stated: for a file that is valid UTF-8 the readers return exactly
\* its content, line terminators included.
C10_ExactContent ==
    \A r \in Reads : ReadValidFile(r) => r.value = ExactContent(rd_st.bytes)

\* C10 amended: for a file that is valid UTF-8 the readers return its
\* content with every line terminator \r\n or \r turned into \n and no
\* other character added, dropped or altered.
C10_ContentWithLf ==
    \A r \in Reads : ReadValidFile(r) => r.value = ContentWithLf(rd_st.bytes)

\* both readers returned a two-byte character and a translated terminator
C10_Witness ==
    /\ rd_fm.called
    /\ rd_dg.called
    /\ rd_st = FileState("file", <<195, 169, 13>>)
    /\ rd_fm.value = <<"U+00E9", "\n">>
    /\ rd_dg.value = <<"U+00E9", "\n">>

(***************************************************************************)
(* Properties of AppLogger (specification SpecLog).                        *)
(***************************************************************************)
Sinks(kind) == {i \in 1..Len(handlers) : handlers[i].kind = kind}

\* C15: logging never fails its caller: no call on the logger raises, and
\* once configure was called with a log directory that cannot be created
\* or takes no log file, is_enabled() is False, no handler is attached,
\* and that call and every later logging call emitted nothing.
C15_LoggingNeverFails ==
    /\ ~log_last.raised
    /\ (log_configures > 0 /\ log_env[log_path] # "ok") =>
          /\ ~IsEnabled
          /\ handlers = <<>>
          /\ log_last.emitted = <<>>

\* the logger worked, was then configured with a directory that takes no
\* log file, and log_file_operation was called on it
C15_Witness ==
    /\ log_configures = 2
    /\ log_env["logs"] = "ok"
    /\ log_env[log_path] = "nofile"
    /\ log_last.op = "log_file_operation"

\* C16: after any sequence of configure calls the logger has at most one
\* file handler and at most one console handler, an initialized logger
\* has exactly the pair configure attached last, and every record is
\* written at most once to a sink.
C16_HandlersNeverAccumulate ==
    /\ Cardinality(Sinks("file")) <= 1
    /\ Cardinality(Sinks("console")) <= 1
    /\ log_initialized => handlers = <<FileHandler(log_path), ConsoleHandler>>
    /\ \A i \in 1..Len(log_last.emitted) : NoDuplicates(log_last.emitted[i])

\* the third configure in a row succeeded, and an error record went once
\* to the file and once to the console
C16_Witness ==
    /\ log_configures = 3
    /\ log_initialized
    /\ log_path = "elsewhere"
    /\ log_last = Call("error", FALSE,
                       << <<<<"file", "elsewhere">>, <<"console", "stderr">>>> >>)

\* C30: however often AppLogger is constructed and configured, with the
\* log directory and the log file created or not, handlers are attached
\* exactly when the logger is enabled and initialized, and they are then
\* the pair of the last configure; a call emits records only in that
\* state: none before the first configure and none once configure was
\* called with enabled False or has failed.
C30_HandlersIffEnabledAndInitialized ==
    /\ handlers # <<>> <=> (log_enabled /\ log_initialized)
    /\ handlers # <<>> => handlers = <<FileHandler(log_path), ConsoleHandler>>
    /\ log_last.emitted # <<>> => (log_enabled /\ log_initialized)
    /\ log_configures = 0 => log_last.emitted = <<>>

\* the logger was configured twice, the second time with success, and
\* constructed again after that
C30_Witness ==
    /\ log_configures = 2
    /\ log_last.op = "construct"
    /\ log_initialized
    /\ handlers = <<FileHandler("elsewhere"), ConsoleHandler>>

(***************************************************************************)
(* Properties of ConfigManager (specification SpecCfg).                    *)
(***************************************************************************)
\* C19: load never raises, and for a config file that is missing, cannot
\* be read, holds no valid JSON or holds a JSON value that is no object it
\* returns the default configuration, which has all ten keys.
C19_LoadFallsBackToDefault ==
    cfg_last.op = "load" =>
        /\ ~cfg_last.raised
        /\ (cfg_file.kind # "json" \/ cfg_file.value.type # "dict") =>
              /\ cfg_last.value = DefaultConfig
              /\ \A k \in Keys : cfg_last.value.members[k] # Absent

\* the step is a call of save or update that could not write the file
FailedWrite == cfg_last'.op \in {"save", "update"} /\ ~cfg_last'.ok

TruncatedFile == CfgFile("invalid", PyNone)

\* C28 as stated: a save or an update that cannot write the file leaves
\* the configuration in memory and the file config.json as they were.
C28_FailedWriteLeavesStoreUnchanged ==
    [][FailedWrite => (config' = config /\ cfg_file' = cfg_file)]_vars

\* C28: a save that fails leaves the configuration in memory as it was;
\* an update that fails has either raised on a configuration that is no
\* dict, leaving it as it was, or has assigned the key in memory before
\* the write failed, the other keys as they were; in both the file
\* config.json is as it was or, when the failure came after it was opened
\* for writing, holds no complete JSON text.
C28_FailedWriteKeepsMemory ==
    [][FailedWrite =>
         /\ cfg_file' \in {cfg_file, TruncatedFile}
         /\ cfg_last'.op = "save" => config' = config
         /\ (cfg_last'.op = "update" /\ cfg_last'.raised) => config' = config
         /\ (cfg_last'.op = "update" /\ ~cfg_last'.raised) =>
               \E kv \in UpdateArgs :
                  config' = SetItem(config, kv[1], kv[2]).value]_vars

\* a save with values other than those in memory failed after the file
\* was opened: the file holds no JSON text, the configuration in memory is
\* the one loaded
C28_Witness ==
    /\ cfg_last.op = "save"
    /\ ~cfg_last.ok
    /\ cfg_last.value.members["group"] = <<"group">>
    /\ cfg_file = TruncatedFile
    /\ config = DefaultConfig

\* C29: once the ConfigManager is constructed, whatever load, save and
\* update calls were made, the configuration in memory is a mapping that
\* holds logging_enabled and log_directory, and a save whose argument has
\* neither keeps the values the two had before it.
C29_LoggingSettingsSurvive ==
    /\ [](config # NotConstructed =>
             /\ config.type = "dict"
             /\ config.members["logging_enabled"] # Absent
             /\ config.members["log_directory"] # Absent)
    /\ [][(cfg_last'.op = "save" /\ cfg_last'.ok /\ config.type = "dict") =>
             \/ cfg_last'.value = DefaultConfig
             \/ \A k \in {"logging_enabled", "log_directory"} :
                   config'.members[k] = config.members[k]]_vars

(***************************************************************************)
(* Properties of generate_document (specification SpecApp).                *)
(***************************************************************************)
\* nothing was constructed, called, written or saved by the handler
NothingDone ==
    /\ doc_generator = "None"
    /\ pc = "idle"
    /\ outFile = outFile0
    /\ tempFiles = {}
    /\ cfg_last.op = "load"
    /\ config = Load(cfg_file).value

\* C11: with the template missing, generate returns False from loading or
\* rendering it and no temporary file was ever created; and a handler that
\* reaches its template test with the template missing shows the alert of
\* the missing template and returns, having constructed no
\* DocumentGenerator, written no file and saved no configuration.
C11_MissingTemplateFailsEarly ==
    /\ [](/\ (pc = "done" /\ ~templateExists) =>
               /\ result = "False"
               /\ caught \in {"load", "render"}
               /\ temp_file = 0
               /\ tempFiles = {}
          /\ (apc = "returned" /\ alerts = <<AlertTemplate>>) => NothingDone)
    /\ [][(apc = "template" /\ ~templateExists /\ apc' # apc) =>
             /\ apc' = "returned"
             /\ alerts' = <<AlertTemplate>>]_vars

\* the form is filled and two files were found, the template is missing:
\* the handler has shown the alert and returned
C11_Witness ==
    /\ apc = "returned"
    /\ ~templateExists
    /\ self_found_files = <<PathA, PathB>>
    /\ alerts = <<AlertTemplate>>

\* generate was called after the template was removed, and returned
GenerateRanWithoutTemplate ==
    /\ pc = "done"
    /\ ~templateExists
    /\ apc = "returned"

ConfigUntouched ==
    /\ cfg_last.op = "load"
    /\ config = Load(cfg_file).value

\* C18: generate_document calls ConfigManager.save exactly when generate
\* returned True, with the values of the fields and the paths just used;
\* on every early return and on a failed run the stored configuration and
\* the configuration in memory are as they were, and no step but the one
\* after a successful generate changes either.
C18_ConfigSavedOnlyOnSuccess ==
    /\ [](/\ cfg_last.op = "save" => (apc = "returned" /\ result = "True")
          /\ apc = "returned" =>
                IF result = "True"
                THEN /\ cfg_last.op = "save"
                     /\ \A k \in Keys \ {"logging_enabled", "log_directory"} :
                           cfg_last.value.members[k] = ConfigData.members[k]
                     /\ cfg_last.ok =>
                           /\ config = cfg_last.value
                           /\ cfg_file = CfgFile("json", config)
                ELSE ConfigUntouched)
    /\ [][(cfg_file' # cfg_file \/ config' # config) =>
             (apc = "generating" /\ result = "True")]_vars

\* a run over two files returned True and the configuration was saved
C18_Witness ==
    /\ apc = "returned"
    /\ result = "True"
    /\ Len(code_files) = 2
    /\ cfg_last.op = "save"
    /\ cfg_last.ok
    /\ config.members["student_name"] = <<"I", " ", "P">>
    /\ config.members["logging_enabled"] = <<"True">>

\* the handler has returned from a run in which generate failed
FailedRun == apc = "returned" /\ pc = "done" /\ result = "False"

\* C21: a run in which a stage of generate failed ends with generate
\* returning False and with an alert of generate_document that carries the
\* text of the exception the stage raised.
C21_FailureReportedWithCause ==
    FailedRun =>
        /\ caught # "none"
        /\ \E i \in DOMAIN alerts :
              alerts[i] = ErrorMessage(ExceptionText(caught))

\* the stages of generate in their order
StageOrder ==
    {<<"idle", "load">>, <<"load", "render">>, <<"render", "mktemp">>,
     <<"mktemp", "savetemp">>, <<"savetemp", "open">>, <<"open", "loop">>,
     <<"loop", "cleanup">>, <<"cleanup", "done">>}

\* a step of generate that calls final_doc.save
SaveStep == pc = "loop" /\ (pc' = "cleanup" \/ caught' = "save")

\* C17: the stages of a run follow one another: the list generate reads
\* is a list a completed discovery returned and stays as it is while
\* generate runs, whatever a later discovery finds; generate moves from
\* stage to stage in the one order or leaves through its handler; the
\* document changes only inside the loop, which is entered with the cover
\* read back from the temporary file; the final save is called when every
\* file has its section; and after it no section is added and no file
\* read.
C17_StagesSequential ==
    [][/\ self_found_files' # self_found_files =>
             (wpc = "done" /\ self_found_files' = w_ret.value)
       /\ code_files' # code_files =>
             (pc = "idle" /\ code_files' = self_found_files)
       /\ pc' # pc => (<<pc, pc'>> \in StageOrder \/ pc' = "done")
       /\ (pc' = "loop" /\ pc # "loop") =>
             (temp_file \in tempFiles /\ final_doc' = <<Cover>> /\ it' = 0)
       /\ (final_doc' # final_doc \/ it' # it) => pc \in {"open", "loop"}
       /\ SaveStep =>
             /\ it = Len(code_files)
             /\ Len(Bodies(final_doc)) = Len(code_files)
             /\ final_doc' = final_doc
       /\ outFile' # outFile => SaveStep
       /\ pc \in {"cleanup", "done"} =>
             (final_doc' = final_doc /\ it' = it /\ code_files' = code_files)
      ]_vars

\* generate has saved the document of two files while a later discovery,
\* started after it was called, is still walking
C17_Witness ==
    /\ pc = "cleanup"
    /\ code_files = <<PathA, PathB>>
    /\ Len(Bodies(outFile.doc)) = 2
    /\ dpc = "walking"
    /\ wpc = "walk"

(***************************************************************************)
(* Properties of two overlapping calls of generate (specification          *)
(* SpecRace).                                                              *)
(***************************************************************************)
BothReturned == \A r \in Runs : g_pc[r] = "done"

\* C22: when two overlapping calls with the same output_path have both
\* returned True, the file at output_path holds the whole document of one
\* of the two calls and nothing else: never pieces of both.
C22_LastWriterWins ==
    (BothReturned /\ \A r \in Runs : g_result[r] = "True") =>
        \E r \in Runs : g_out = [state |-> "written", doc |-> g_doc[r]]

\* the call holds a temporary file it has not yet removed
HoldsTemp(r) == g_pc[r] \in {"open", "loop", "write", "cleanup"}

\* C24: two overlapping calls never share a temporary file: while both
\* hold one the names differ, the file a call opens for the assembly is
\* the file that call created, and a call's cleanup removes no file but
\* the one that call created.
C24_TempFilesNotShared ==
    /\ []((HoldsTemp(1) /\ HoldsTemp(2)) => g_temp[1] # g_temp[2])
    /\ [][\A r \in Runs :
             /\ (g_pc[r] = "open" /\ g_pc'[r] = "loop") =>
                   TempNamed(g_tmpdir, g_temp[r])
                       = {[name |-> g_temp[r], owner |-> r]}
             /\ (g_pc[r] = "cleanup" /\ g_pc'[r] = "done") =>
                   \A f \in g_tmpdir \ g_tmpdir' : f.owner = r]_vars

\* both calls have assembled their documents from their own temporary
\* files, and the first has removed its file while the second still holds
\* the other
C24_Witness ==
    /\ g_pc[1] = "done"
    /\ g_result[1] = "True"
    /\ g_pc[2] = "cleanup"
    /\ g_temp[1] = 1
    /\ g_temp[2] = 2
    /\ g_tmpdir = {[name |-> 2, owner |-> 2]}

(***************************************************************************)
(* Properties of the AppLogger under two threads (specification            *)
(* SpecThreads).                                                           *)
(***************************************************************************)
ThreadsDone == \A t \in Threads : t_pc[t] = "done"

\* C23: whatever the interleaving of the calls two threads make on the
\* AppLogger, once both calls have returned at most one file handler and
\* at most one console handler are attached, and every record a call
\* emitted was written once to a sink, never twice.
C23_SinksConsistentUnderThreads ==
    ThreadsDone =>
        /\ Cardinality(Sinks("file")) <= 1
        /\ Cardinality(Sinks("console")) <= 1
        /\ \A t \in Threads : \A i \in 1..Len(t_written[t]) :
              NoDuplicates(t_written[t][i])

(***************************************************************************)
(* Properties of the stored save directory (specification SpecStartup).    *)
(***************************************************************************)
\* C27: when the config loaded at start-up holds save_nearby = true and a
\* save_directory that is not empty, a successful run whose
\* _save_current_config writes the file leaves that save_directory in
\* the stored config.
C27_SaveNearbyKeepsSaveDirectory ==
    [][(/\ save_nearby
        /\ cfg_file.kind = "json"
        /\ cfg_file.value.members["save_directory"] # <<>>
        /\ apc = "generating" /\ apc' = "returned"
        /\ result = "True"
        /\ cfg_last'.op = "save" /\ cfg_last'.ok)
       => /\ cfg_file'.kind = "json"
          /\ cfg_file'.value.members["save_directory"] =
                cfg_file.value.members["save_directory"]]_vars

(***************************************************************************)
(* Properties of the form (specification SpecUi).                          *)
(***************************************************************************)
NonBlank(value) == \E i \in 1..Len(value) : value[i] # " "

\* C25: after every handler of the form (a field edited, a directory
\* chosen in the dialog or typed, an invalid directory typed) the generate
\* button is enabled exactly when the four fields hold something other
\* than white space and found_files is not empty.
C25_ButtonEnabledIffFormValid ==
    ~generate_btn_disabled <=>
        /\ \A k \in FieldNames : NonBlank(form[k])
        /\ self_found_files # <<>>

\* the fields are filled and a directory with one code file was typed,
\* with white space around it: the button is enabled
C25_Witness ==
    /\ ui_last = UiEvent("manual", DirS, DirT)
    /\ \A k \in FieldNames : form[k] = <<" ", "7">>
    /\ self_found_files = <<PathB>>
    /\ ~generate_btn_disabled

IsUnder(path, directory) ==
    /\ Len(path) > Len(directory)
    /\ SubSeq(path, 1, Len(directory)) = directory

\* the handler that ran last was given a path that is no directory
InvalidTyped ==
    /\ ui_last.event = "manual"
    /\ ui_last.path # <<>>
    /\ ~(PathExists(ui_last.path) /\ IsDir(ui_last.path))

\* C26: after a path that does not exist or is no directory was typed,
\* selected_directory is None and found_files is empty, so that
\* generate_document returns from its validation; while no directory is
\* selected found_files is empty; and after a directory was selected
\* found_files holds the code files found under that directory and no
\* other file.
C26_NoFilesOfReplacedDirectory ==
    /\ InvalidTyped =>
          /\ selected_directory = <<>>
          /\ self_found_files = <<>>
          /\ ValidateGenerationInputs(form, self_found_files) # "ok"
    /\ selected_directory = <<>> => self_found_files = <<>>
    /\ selected_directory # <<>> =>
          /\ IsDir(selected_directory)
          /\ self_found_files = FindCodeFiles(selected_directory)
          /\ \A i \in 1..Len(self_found_files) :
                IsUnder(self_found_files[i], selected_directory)

\* D with its two code files was selected and the fields are filled, then
\* the path of a file was typed
C26_Witness ==
    /\ ui_last = UiEvent("manual", PathA, DirRoot)
    /\ \A k \in FieldNames : form[k] = <<"7">>
    /\ generate_btn_disabled
    /\ ValidateGenerationInputs(form, self_found_files) = AlertNoFiles

(***************************************************************************)
(* Properties of the file name and output path (specification SpecName).   *)
(***************************************************************************)
Prepared == apc \in {"call", "returned"}

\* the part of the file name between the "_" after the work number and
\* the ".docx"
StudentPart ==
    SubSeq(output_filename, Len(form.work_number) + 3,
           Len(output_filename) - 1)

\* C20: the file name is the fixed prefix, the work number as it is, "_",
\* the student name with every space replaced by "_", and ".docx"; its
\* student part has no space; the output path is the file name alone when
\* "save nearby" is on, else the file name joined to the chosen directory.
C20_FilenameAndPath ==
    Prepared =>
        /\ Len(output_filename)
              = Len(form.work_number) + Len(form.student_name) + 3
        /\ output_filename[1] = Prefix
        /\ SubSeq(output_filename, 2, Len(form.work_number) + 1)
              = form.work_number
        /\ output_filename[Len(form.work_number) + 2] = "_"
        /\ \A i \in 1..Len(form.student_name) :
              StudentPart[i] = IF form.student_name[i] = " " THEN "_"
                               ELSE form.student_name[i]
        /\ " " \notin Range(StudentPart)
        /\ Last(output_filename) = ".docx"
        /\ save_nearby => output_path = output_filename
        /\ (~save_nearby /\ selected_save_directory # <<>>) =>
              output_path
                 = selected_save_directory
                     \o (IF Last(selected_save_directory) = "/" THEN <<>>
                         ELSE <<"/">>)
                     \o output_filename

\* a name with two spaces and a work number with one, saved to a chosen
\* directory
C20_Witness ==
    /\ Prepared
    /\ form.student_name = <<" ", "I", " ">>
    /\ form.work_number = <<"7", " ">>
    /\ ~save_nearby
    /\ output_path = <<"/", "o", "/", Prefix, "7", " ", "_", "_", "I", "_",
                       ".docx">>

=============================================================================
